---------------------------- MODULE Spec2Model ----------------------------
(***************************************************************************)
(* Monthly sales forecasting: the two chart components of                  *)
(* src/components/alin/sales/SalesChartOnCategory.tsx (SalesByCategoryChart *)
(* and GeneralSalePriceStats with its nine prediction methods) and the     *)
(* earlier GeneralSalePriceStats of src/unnamed/part_000.                  *)
(*                                                                         *)
(* Numbers.  The source computes with IEEE-754 doubles.  Here a number is  *)
(* a record [n, d]: an exact reduced fraction n/d when d > 0, and the      *)
(* three non-finite doubles when d = 0 (n = 0: NaN, n = 1: +Infinity,      *)
(* n = -1: -Infinity).  Division by zero, 0 * Infinity, Infinity -         *)
(* Infinity and comparisons with NaN follow IEEE-754; rounding error and   *)
(* the sign of zero are not represented.                                   *)
(***************************************************************************)
EXTENDS Integers, Sequences, FiniteSets, TLC

(***************************************************************************)
(* Arithmetic of the source's number type                                  *)
(***************************************************************************)
AbsInt(i) == IF i < 0 THEN -i ELSE i

SignInt(i) == IF i < 0 THEN -1 ELSE IF i > 0 THEN 1 ELSE 0

RECURSIVE Gcd(_, _)
Gcd(a, b) == IF b = 0 THEN a ELSE Gcd(b, a % b)

Norm(num, den) ==
    LET g == Gcd(AbsInt(num), AbsInt(den))
        s == IF den < 0 THEN -1 ELSE 1
    IN  [n |-> s * (num \div g), d |-> s * (den \div g)]

Q(num, den) == Norm(num, den)

R(i) == [n |-> i, d |-> 1]

NaN == [n |-> 0, d |-> 0]

Infinity == [n |-> 1, d |-> 0]

NegInfinity == [n |-> -1, d |-> 0]

IsNaN(x) == x.d = 0 /\ x.n = 0

IsFinite(x) == x.d > 0

Neg(x) == [n |-> -x.n, d |-> x.d]

Add(x, y) ==
    IF IsNaN(x) \/ IsNaN(y) THEN NaN
    ELSE IF x.d = 0 /\ y.d = 0 THEN (IF x.n = y.n THEN x ELSE NaN)
    ELSE IF x.d = 0 THEN x
    ELSE IF y.d = 0 THEN y
    ELSE LET g == Gcd(x.d, y.d)
             l == (x.d \div g) * y.d
         IN  Norm(x.n * (l \div x.d) + y.n * (l \div y.d), l)

Sub(x, y) == Add(x, Neg(y))

Mul(x, y) ==
    IF IsNaN(x) \/ IsNaN(y) THEN NaN
    ELSE IF x.d = 0 \/ y.d = 0
         THEN (IF x.n = 0 \/ y.n = 0 THEN NaN
               ELSE [n |-> SignInt(x.n) * SignInt(y.n), d |-> 0])
    ELSE LET g1 == Gcd(AbsInt(x.n), y.d)
             g2 == Gcd(AbsInt(y.n), x.d)
         IN  Norm((x.n \div g1) * (y.n \div g2), (x.d \div g2) * (y.d \div g1))

Div(x, y) ==
    IF IsNaN(x) \/ IsNaN(y) THEN NaN
    ELSE IF y.d = 0 THEN (IF x.d = 0 THEN NaN ELSE R(0))
    ELSE IF y.n = 0 THEN (IF x.n = 0 THEN NaN
                          ELSE [n |-> SignInt(x.n), d |-> 0])
    ELSE IF x.d = 0 THEN [n |-> SignInt(x.n) * SignInt(y.n), d |-> 0]
    ELSE Mul(x, [n |-> SignInt(y.n) * y.d, d |-> AbsInt(y.n)])

\* x < y, false when either side is NaN
Lt(x, y) ==
    IF IsNaN(x) \/ IsNaN(y) THEN FALSE
    ELSE IF x.d = 0 \/ y.d = 0
         THEN (IF x.d = 0 /\ y.d = 0 THEN x.n < y.n
               ELSE IF x.d = 0 THEN x.n < 0 ELSE y.n > 0)
    ELSE Sub(x, y).n < 0

Gt(x, y) == Lt(y, x)

\* x >= y, false when either side is NaN
Ge(x, y) == ~IsNaN(x) /\ ~IsNaN(y) /\ ~Lt(x, y)

\* Math.max(0, x)
Max0(x) == IF IsNaN(x) THEN NaN ELSE IF x.n < 0 THEN R(0) ELSE x

\* Math.abs(x)
Abs(x) == [n |-> AbsInt(x.n), d |-> x.d]

\* the operand of || is falsy: 0 or NaN
Falsy(x) == x.n = 0

\* Math.pow(x, k) for an integer k >= 1
RECURSIVE Pow(_, _)
Pow(x, k) == IF k <= 1 THEN x ELSE Mul(x, Pow(x, k - 1))

RECURSIVE IntPow(_, _)
IntPow(b, k) == IF k = 0 THEN 1 ELSE b * IntPow(b, k - 1)

\* b^k, or a + 1 as soon as the power exceeds a
RECURSIVE CappedPow(_, _, _)
CappedPow(b, k, a) ==
    IF k = 0 THEN 1
    ELSE LET rest == CappedPow(b, k - 1, a)
         IN  IF rest > a \/ b * rest > a THEN a + 1 ELSE b * rest

\* a has an exact k-th root among the naturals
HasIntRoot(a, k) == \E r \in 0..a : CappedPow(r, k, a) = a

IntRoot(a, k) == CHOOSE r \in 0..a : CappedPow(r, k, a) = a

\* Math.pow(x, 1 / k) is a fraction again (or is not finite)
HasRoot(x, k) ==
    \/ x.d = 0
    \/ x.n < 0
    \/ HasIntRoot(x.n, k) /\ HasIntRoot(x.d, k)

\* Math.pow(x, 1 / k) for k >= 3 where HasRoot(x, k)
Root(x, k) ==
    IF IsNaN(x) THEN NaN
    ELSE IF x.d = 0 THEN (IF x.n > 0 THEN Infinity ELSE NaN)
    ELSE IF x.n < 0 THEN NaN
    ELSE [n |-> IntRoot(x.n, k), d |-> IntRoot(x.d, k)]

\* A natural number of any size, as its digits in base 10000 from the least
\* significant one, and the arithmetic of such numbers: values the number
\* type holds whose numerator or denominator has more than nine digits.
RECURSIVE WideOf(_)
WideOf(i) == IF i < 10000 THEN <<i>> ELSE <<i % 10000>> \o WideOf(i \div 10000)

\* a * b, by the digits of b: a * b[1] + 10000 * (a * rest of b), without
\* zeros at the most significant end
RECURSIVE WideMul(_, _)
WideMul(a, b) ==
    LET RECURSIVE Times(_, _, _)
        Times(x, m, carry) ==
            IF x = <<>> THEN (IF carry = 0 THEN <<>> ELSE <<carry>>)
            ELSE LET t == x[1] * m + carry
                 IN  <<t % 10000>> \o Times(Tail(x), m, t \div 10000)
        RECURSIVE Plus(_, _, _)
        Plus(x, y, carry) ==
            IF x = <<>> /\ y = <<>> THEN (IF carry = 0 THEN <<>> ELSE <<carry>>)
            ELSE LET t == (IF x = <<>> THEN 0 ELSE x[1])
                              + (IF y = <<>> THEN 0 ELSE y[1]) + carry
                 IN  <<t % 10000>> \o Plus(IF x = <<>> THEN x ELSE Tail(x),
                                           IF y = <<>> THEN y ELSE Tail(y), t \div 10000)
        RECURSIVE Trim(_)
        Trim(x) == IF Len(x) > 1 /\ x[Len(x)] = 0 THEN Trim(SubSeq(x, 1, Len(x) - 1)) ELSE x
    IN  IF b = <<>> THEN <<0>>
        ELSE Trim(Plus(Times(a, b[1], 0), <<0>> \o WideMul(a, Tail(b)), 0))

\* x * Math.pow(b, k) for fractions x >= 0 and b >= 0 and an integer k >= 0,
\* as a fraction of wide numbers
RECURSIVE WideScaled(_, _, _)
WideScaled(x, b, k) ==
    IF k = 0 THEN [n |-> WideOf(x.n), d |-> WideOf(x.d)]
    ELSE LET rest == WideScaled(x, b, k - 1)
         IN  [n |-> WideMul(rest.n, WideOf(b.n)), d |-> WideMul(rest.d, WideOf(b.d))]

\* x < y for fractions of wide numbers: x.n * y.d < y.n * x.d, compared by
\* length and then from the most significant digit
WideFracLt(x, y) ==
    LET RECURSIVE Less(_, _)
        Less(a, b) ==
            IF Len(a) # Len(b) THEN Len(a) < Len(b)
            ELSE IF a = <<>> THEN FALSE
            ELSE IF a[Len(a)] # b[Len(b)] THEN a[Len(a)] < b[Len(b)]
            ELSE Less(SubSeq(a, 1, Len(a) - 1), SubSeq(b, 1, Len(b) - 1))
    IN  Less(WideMul(x.n, y.d), WideMul(y.n, x.d))

\* reduce((a, b) => a + b, 0) over a sequence of numbers
RECURSIVE SumSeq(_)
SumSeq(s) == IF s = <<>> THEN R(0) ELSE Add(SumSeq(SubSeq(s, 1, Len(s) - 1)), s[Len(s)])


(***************************************************************************)
(* Helpers shared by the prediction methods                                *)
(***************************************************************************)
Min(a, b) == IF a < b THEN a ELSE b

Max(a, b) == IF a > b THEN a ELSE b

\* historicalData.map(d => d.avgPrice), historicalData.map(d => d.totalAmount)
Prices(historicalData) == [i \in 1..Len(historicalData) |-> historicalData[i].avgPrice]

Sales(historicalData) == [i \in 1..Len(historicalData) |-> historicalData[i].totalAmount]

\* array.slice(-k)
LastK(s, k) == SubSeq(s, Len(s) - Min(k, Len(s)) + 1, Len(s))

\* the sums the forEach of every regression accumulates; index runs from 0
RECURSIVE SumIndex(_)
SumIndex(n) == IF n = 0 THEN 0 ELSE SumIndex(n - 1) + (n - 1)

RECURSIVE SumIndexPow(_, _)
SumIndexPow(n, k) == IF n = 0 THEN 0 ELSE SumIndexPow(n - 1, k) + IntPow(n - 1, k)

RECURSIVE SumXY(_)
SumXY(ys) ==
    IF ys = <<>> THEN R(0)
    ELSE Add(SumXY(SubSeq(ys, 1, Len(ys) - 1)), Mul(R(Len(ys) - 1), ys[Len(ys)]))

RECURSIVE SumX2Y(_)
SumX2Y(ys) ==
    IF ys = <<>> THEN R(0)
    ELSE Add(SumX2Y(SubSeq(ys, 1, Len(ys) - 1)),
             Mul(R((Len(ys) - 1) * (Len(ys) - 1)), ys[Len(ys)]))

\* the denominator with sumX in the place of sumXX
TrendDenominatorOfSumX(n) == n * SumIndex(n) - SumIndex(n) * SumIndex(n)

\* n * sumXX - sumX * sumX
TrendDenominator(n) == n * SumIndexPow(n, 2) - SumIndex(n) * SumIndex(n)

\* (n * sumXY - sumX * sumY) / (n * sumXX - sumX * sumX)
Slope(ys) ==
    LET n == Len(ys)
    IN  Div(Sub(Mul(R(n), SumXY(ys)), Mul(R(SumIndex(n)), SumSeq(ys))),
            R(TrendDenominator(n)))

\* mutant: the intercept is taken to be the mean, sumY / n
InterceptIsMean(ys) == Div(SumSeq(ys), R(Len(ys)))

\* (sumY - slope * sumX) / n
Intercept(ys) ==
    LET n == Len(ys)
    IN  Div(Sub(SumSeq(ys), Mul(Slope(ys), R(SumIndex(n)))), R(n))

\* mutant: the year is carried at month 12 already (>= 12 for > 12)
RECURSIVE MonthWalkEarlyCarry(_, _, _, _)
MonthWalkEarlyCarry(currentYear, currentMonth, targetYear, targetMonth) ==
    IF currentYear < targetYear
       \/ (currentYear = targetYear /\ currentMonth < targetMonth)
    THEN LET rolls == currentMonth + 1 >= 12
             nextMonth == IF rolls THEN 1 ELSE currentMonth + 1
             nextYear == IF rolls THEN currentYear + 1 ELSE currentYear
         IN  <<[year |-> nextYear, month |-> nextMonth]>>
                 \o MonthWalkEarlyCarry(nextYear, nextMonth, targetYear, targetMonth)
    ELSE <<>>

\* the while loop every method runs: one (year, month) per iteration
RECURSIVE MonthWalk(_, _, _, _)
MonthWalk(currentYear, currentMonth, targetYear, targetMonth) ==
    IF currentYear < targetYear
       \/ (currentYear = targetYear /\ currentMonth < targetMonth)
    THEN LET rolls == currentMonth + 1 > 12
             nextMonth == IF rolls THEN 1 ELSE currentMonth + 1
             nextYear == IF rolls THEN currentYear + 1 ELSE currentYear
         IN  <<[year |-> nextYear, month |-> nextMonth]>>
                 \o MonthWalk(nextYear, nextMonth, targetYear, targetMonth)
    ELSE <<>>

\* the predictions.push of the dual-metric methods; rawPrice[j] and rawSales[j]
\* are predictedPrice and predictedSales of the j-th iteration
PredictedPoints(lastData, walk, rawPrice, rawSales) ==
    [j \in 1..Len(walk) |->
        LET prevPrice == IF j = 1 THEN lastData.avgPrice ELSE Max0(rawPrice[j - 1])
            prevSales == IF j = 1 THEN lastData.totalAmount ELSE Max0(rawSales[j - 1])
        IN  [year |-> walk[j].year,
             month |-> walk[j].month,
             avgPrice |-> Max0(rawPrice[j]),
             totalAmount |-> Max0(rawSales[j]),
             priceChange |-> Sub(rawPrice[j], prevPrice),
             salesChange |-> Sub(rawSales[j], prevSales),
             priceChangePercent |-> Mul(Div(Sub(rawPrice[j], prevPrice), prevPrice), R(100)),
             salesChangePercent |-> Mul(Div(Sub(rawSales[j], prevSales), prevSales), R(100)),
             isPredicted |-> TRUE]]

(***************************************************************************)
(* The nine prediction methods                                             *)
(***************************************************************************)
linearPrediction(historicalData, targetYear, targetMonth) ==
    LET n == Len(historicalData)
        lastData == historicalData[n]
        walk == MonthWalk(lastData.year, lastData.month, targetYear, targetMonth)
        slope_price == Slope(Prices(historicalData))
        intercept_price == Intercept(Prices(historicalData))
        slope_sales == Slope(Sales(historicalData))
        intercept_sales == Intercept(Sales(historicalData))
        rawPrice == [j \in 1..Len(walk) |-> Add(Mul(slope_price, R(n + j - 1)), intercept_price)]
        rawSales == [j \in 1..Len(walk) |-> Add(Mul(slope_sales, R(n + j - 1)), intercept_sales)]
    IN  PredictedPoints(lastData, walk, rawPrice, rawSales)

\* denom: the determinant of the normal equations over the power sums
PolynomialDenominator(n) ==
    LET sumX == SumIndexPow(n, 1)
        sumX2 == SumIndexPow(n, 2)
        sumX3 == SumIndexPow(n, 3)
        sumX4 == SumIndexPow(n, 4)
    IN  n * (sumX2 * sumX4 - sumX3 * sumX3) - sumX * (sumX * sumX4 - sumX2 * sumX3)
            + sumX2 * (sumX * sumX3 - sumX2 * sumX2)

\* the coefficients a, b, c by Cramer's rule over the power sums
PolynomialFit(ys) ==
    LET n == Len(ys)
        sumX == SumIndexPow(n, 1)
        sumX2 == SumIndexPow(n, 2)
        sumX3 == SumIndexPow(n, 3)
        sumX4 == SumIndexPow(n, 4)
        sumY == SumSeq(ys)
        sumXY == SumXY(ys)
        sumX2Y == SumX2Y(ys)
        denom == PolynomialDenominator(n)
        a == Div(Add(Sub(Mul(sumY, R(sumX2 * sumX4 - sumX3 * sumX3)),
                         Mul(R(sumX), Sub(Mul(sumXY, R(sumX4)), Mul(sumX2Y, R(sumX3))))),
                     Mul(R(sumX2), Sub(Mul(sumXY, R(sumX3)), Mul(sumX2Y, R(sumX2))))),
                 R(denom))
        b == Div(Add(Sub(Mul(R(n), Sub(Mul(sumXY, R(sumX4)), Mul(sumX2Y, R(sumX3)))),
                         Mul(sumY, R(sumX * sumX4 - sumX2 * sumX3))),
                     Mul(R(sumX2), Sub(Mul(R(sumX), sumX2Y), Mul(R(sumX2), sumXY)))),
                 R(denom))
        c == Div(Add(Sub(Mul(R(n), Sub(Mul(R(sumX2), sumX2Y), Mul(R(sumX3), sumXY))),
                         Mul(R(sumX), Sub(Mul(R(sumX), sumX2Y), Mul(R(sumX2), sumXY)))),
                     Mul(sumY, R(sumX * sumX3 - sumX2 * sumX2))),
                 R(denom))
    IN  [a |-> a, b |-> b, c |-> c]

\* a + b * index + c * index * index
PolynomialValue(fit, index) ==
    Add(Add(fit.a, Mul(fit.b, R(index))), Mul(Mul(fit.c, R(index)), R(index)))

polynomialPrediction(historicalData, targetYear, targetMonth) ==
    LET n == Len(historicalData)
        lastData == historicalData[n]
        walk == MonthWalk(lastData.year, lastData.month, targetYear, targetMonth)
        price == PolynomialFit(Prices(historicalData))
        sales == PolynomialFit(Sales(historicalData))
        rawPrice == [j \in 1..Len(walk) |-> PolynomialValue(price, n + j - 1)]
        rawSales == [j \in 1..Len(walk) |-> PolynomialValue(sales, n + j - 1)]
    IN  PredictedPoints(lastData, walk, rawPrice, rawSales)

\* Math.pow(last / first, 1 / n)
GrowthRate(ys) == Root(Div(ys[Len(ys)], ys[1]), Len(ys))

exponentialPrediction(historicalData, targetYear, targetMonth) ==
    LET n == Len(historicalData)
        lastData == historicalData[n]
        walk == MonthWalk(lastData.year, lastData.month, targetYear, targetMonth)
        growthRatePrice == GrowthRate(Prices(historicalData))
        growthRateSales == GrowthRate(Sales(historicalData))
        rawPrice == [j \in 1..Len(walk) |-> Mul(lastData.avgPrice, Pow(growthRatePrice, j))]
        rawSales == [j \in 1..Len(walk) |-> Mul(lastData.totalAmount, Pow(growthRateSales, j))]
    IN  PredictedPoints(lastData, walk, rawPrice, rawSales)

\* monthlyAvg[m] taken from the month after m
MonthlyAvgOfNextMonth(historicalData, ys, m) ==
    LET idx == {i \in 1..Len(historicalData) : historicalData[i].month = (m % 12) + 1}
        RECURSIVE Total(_)
        Total(i) == IF i = 0 THEN R(0)
                    ELSE IF i \in idx THEN Add(Total(i - 1), ys[i]) ELSE Total(i - 1)
    IN  IF Cardinality(idx) > 0
        THEN Div(Total(Len(historicalData)), R(Cardinality(idx)))
        ELSE R(0)

\* monthlyAvg[m]: mean of the values observed in calendar month m, 0 if none
MonthlyAvg(historicalData, ys, m) ==
    LET idx == {i \in 1..Len(historicalData) : historicalData[i].month = m}
        RECURSIVE Total(_)
        Total(i) == IF i = 0 THEN R(0)
                    ELSE IF i \in idx THEN Add(Total(i - 1), ys[i]) ELSE Total(i - 1)
    IN  IF Cardinality(idx) > 0
        THEN Div(Total(Len(historicalData)), R(Cardinality(idx)))
        ELSE R(0)

\* the overall mean, the monthly means and the monthly growth in percent
SeasonalFit(historicalData, ys) ==
    LET avg == Div(SumSeq(ys), R(Len(ys)))
    IN  [avg |-> avg,
         monthlyAvg |-> [m \in 1..12 |-> MonthlyAvg(historicalData, ys, m)],
         monthlyGrowth |-> Mul(Div(Slope(ys), avg), R(100))]

\* (monthlyAvg[month] || avg) * Math.pow(1 + monthlyGrowth / 100, monthsAhead)
SeasonalValue(fit, month, monthsAhead) ==
    LET seasonal == IF Falsy(fit.monthlyAvg[month]) THEN fit.avg ELSE fit.monthlyAvg[month]
        trendMultiplier == Pow(Add(R(1), Div(fit.monthlyGrowth, R(100))), monthsAhead)
    IN  Mul(seasonal, trendMultiplier)

seasonalPrediction(historicalData, targetYear, targetMonth) ==
    LET n == Len(historicalData)
        lastData == historicalData[n]
        walk == MonthWalk(lastData.year, lastData.month, targetYear, targetMonth)
        price == SeasonalFit(historicalData, Prices(historicalData))
        sales == SeasonalFit(historicalData, Sales(historicalData))
        rawPrice == [j \in 1..Len(walk) |-> SeasonalValue(price, walk[j].month, j)]
        rawSales == [j \in 1..Len(walk) |-> SeasonalValue(sales, walk[j].month, j)]
    IN  PredictedPoints(lastData, walk, rawPrice, rawSales)

\* the value of SeasonalValue as a fraction of wide numbers, for a fit whose
\* means and multiplier are not negative (Math.max(0, v) is v)
WideSeasonalValue(fit, month, monthsAhead) ==
    LET seasonal == IF Falsy(fit.monthlyAvg[month]) THEN fit.avg ELSE fit.monthlyAvg[month]
    IN  WideScaled(seasonal, Add(R(1), Div(fit.monthlyGrowth, R(100))), monthsAhead)

\* year, month, avgPrice, totalAmount and isPredicted of the points of
\* seasonalPrediction, the two values as fractions of wide numbers
WideSeasonalPrediction(historicalData, targetYear, targetMonth) ==
    LET n == Len(historicalData)
        lastData == historicalData[n]
        walk == MonthWalk(lastData.year, lastData.month, targetYear, targetMonth)
        price == SeasonalFit(historicalData, Prices(historicalData))
        sales == SeasonalFit(historicalData, Sales(historicalData))
    IN  [j \in 1..Len(walk) |->
            [year |-> walk[j].year,
             month |-> walk[j].month,
             avgPrice |-> WideSeasonalValue(price, walk[j].month, j),
             totalAmount |-> WideSeasonalValue(sales, walk[j].month, j),
             isPredicted |-> TRUE]]

\* a window of the whole history
WindowSizeWholeHistory(n) == n

\* Math.min(6, historicalData.length)
WindowSize(n) == Min(6, n)

\* mean of the window plus the window's slope times monthsAhead
MovingAverageValue(ys, monthsAhead) ==
    LET windowSize == WindowSize(Len(ys))
        recentData == LastK(ys, windowSize)
        movingAvg == Div(SumSeq(recentData), R(windowSize))
    IN  Add(movingAvg, Mul(Slope(recentData), R(monthsAhead)))

movingAveragePrediction(historicalData, targetYear, targetMonth) ==
    LET n == Len(historicalData)
        lastData == historicalData[n]
        walk == MonthWalk(lastData.year, lastData.month, targetYear, targetMonth)
        rawPrice == [j \in 1..Len(walk) |-> MovingAverageValue(Prices(historicalData), j)]
        rawSales == [j \in 1..Len(walk) |-> MovingAverageValue(Sales(historicalData), j)]
    IN  PredictedPoints(lastData, walk, rawPrice, rawSales)

\* sum of item * (index + 1) over the window
RECURSIVE WeightedSum(_)
WeightedSum(ys) ==
    IF ys = <<>> THEN R(0)
    ELSE Add(WeightedSum(SubSeq(ys, 1, Len(ys) - 1)), Mul(ys[Len(ys)], R(Len(ys))))

\* weighted mean of the window plus the window's slope times monthsAhead
WeightedMovingAverageValue(ys, monthsAhead) ==
    LET windowSize == WindowSize(Len(ys))
        recentData == LastK(ys, windowSize)
        weightSum == SumIndex(windowSize + 1)
        weightedAvg == Div(WeightedSum(recentData), R(weightSum))
    IN  Add(weightedAvg, Mul(Slope(recentData), R(monthsAhead)))

weightedMovingAveragePrediction(historicalData, targetYear, targetMonth) ==
    LET n == Len(historicalData)
        lastData == historicalData[n]
        walk == MonthWalk(lastData.year, lastData.month, targetYear, targetMonth)
        rawPrice == [j \in 1..Len(walk) |-> WeightedMovingAverageValue(Prices(historicalData), j)]
        rawSales == [j \in 1..Len(walk) |-> WeightedMovingAverageValue(Sales(historicalData), j)]
    IN  PredictedPoints(lastData, walk, rawPrice, rawSales)

\* smoothing factors
alpha == Q(3, 10)

beta == Q(1, 10)

gamma == Q(1, 5)

\* the smoothing loop from position i (1-based) on, entered with level and trend
RECURSIVE HoltLoop(_, _, _, _)
HoltLoop(ys, i, level, trend) ==
    IF i > Len(ys) THEN [level |-> level, trend |-> trend]
    ELSE LET newLevel == Add(Mul(alpha, ys[i]), Mul(Sub(R(1), alpha), Add(level, trend)))
             newTrend == Add(Mul(beta, Sub(newLevel, level)), Mul(Sub(R(1), beta), trend))
         IN  HoltLoop(ys, i + 1, newLevel, newTrend)

\* level and trend once the loop has consumed the whole history
HoltFit(ys) ==
    HoltLoop(ys, 2, ys[1], IF Len(ys) > 1 THEN Sub(ys[2], ys[1]) ELSE R(0))

\* level + monthsAhead * trend
ExponentialSmoothingValue(fit, monthsAhead) ==
    Add(fit.level, Mul(R(monthsAhead), fit.trend))

exponentialSmoothingPrediction(historicalData, targetYear, targetMonth) ==
    LET n == Len(historicalData)
        lastData == historicalData[n]
        walk == MonthWalk(lastData.year, lastData.month, targetYear, targetMonth)
        price == HoltFit(Prices(historicalData))
        sales == HoltFit(Sales(historicalData))
        rawPrice == [j \in 1..Len(walk) |-> ExponentialSmoothingValue(price, j)]
        rawSales == [j \in 1..Len(walk) |-> ExponentialSmoothingValue(sales, j)]
    IN  PredictedPoints(lastData, walk, rawPrice, rawSales)

seasonLength == 12

\* seasonal[0..11] after the initialisation loop: value / overall mean for the
\* first seasonLength points, 0 elsewhere
InitialSeasonal(ys) ==
    LET avg == Div(SumSeq(ys), R(Len(ys)))
    IN  [s \in 0..(seasonLength - 1) |->
            IF s < Len(ys) THEN Div(ys[s + 1], avg) ELSE R(0)]

\* seasonalIdx of the fitting loop, for the point at position i (0-based)
FitSeasonalIdx(i) == i % seasonLength

\* seasonalIdx of the generation loop, for a point of calendar month currentMonth
PredictSeasonalIdx(currentMonth) == (currentMonth - 1) % seasonLength

\* the fitting loop from position i (0-based, as in the source) on
RECURSIVE HoltWintersLoop(_, _, _, _, _)
HoltWintersLoop(ys, i, level, trend, seasonal) ==
    IF i >= Len(ys) THEN [level |-> level, trend |-> trend, seasonal |-> seasonal]
    ELSE LET seasonalIdx == FitSeasonalIdx(i)
             newLevel == Add(Mul(alpha, Div(ys[i + 1], seasonal[seasonalIdx])),
                             Mul(Sub(R(1), alpha), Add(level, trend)))
             newTrend == Add(Mul(beta, Sub(newLevel, level)), Mul(Sub(R(1), beta), trend))
             ratio == Add(Mul(gamma, Div(ys[i + 1], newLevel)),
                          Mul(Sub(R(1), gamma), seasonal[seasonalIdx]))
         IN  HoltWintersLoop(ys, i + 1, newLevel, newTrend,
                             [seasonal EXCEPT ![seasonalIdx] = ratio])

\* level, trend and seasonal once the loop has consumed the whole history
HoltWintersFit(ys) ==
    LET seasonal == InitialSeasonal(ys)
    IN  HoltWintersLoop(ys, 1, Div(ys[1], seasonal[0]), R(0), seasonal)

\* (level + monthsAhead * trend) * seasonal[(currentMonth - 1) % seasonLength]
HoltWintersValue(fit, currentMonth, monthsAhead) ==
    LET seasonalIdx == PredictSeasonalIdx(currentMonth)
    IN  Mul(Add(fit.level, Mul(R(monthsAhead), fit.trend)), fit.seasonal[seasonalIdx])

\* holtWintersPrediction past its length check
holtWintersSeasonal(historicalData, targetYear, targetMonth) ==
    LET n == Len(historicalData)
        lastData == historicalData[n]
        walk == MonthWalk(lastData.year, lastData.month, targetYear, targetMonth)
        price == HoltWintersFit(Prices(historicalData))
        sales == HoltWintersFit(Sales(historicalData))
        rawPrice == [j \in 1..Len(walk) |-> HoltWintersValue(price, walk[j].month, j)]
        rawSales == [j \in 1..Len(walk) |-> HoltWintersValue(sales, walk[j].month, j)]
    IN  PredictedPoints(lastData, walk, rawPrice, rawSales)

\* mutant: the fallback is taken below six points only
holtWintersPredictionHalfSeason(historicalData, targetYear, targetMonth) ==
    IF Len(historicalData) < 6
    THEN exponentialSmoothingPrediction(historicalData, targetYear, targetMonth)
    ELSE holtWintersSeasonal(historicalData, targetYear, targetMonth)

holtWintersPrediction(historicalData, targetYear, targetMonth) ==
    IF Len(historicalData) < seasonLength
    THEN exponentialSmoothingPrediction(historicalData, targetYear, targetMonth)
    ELSE holtWintersSeasonal(historicalData, targetYear, targetMonth)

\* order of the autoregression
p == 3

\* coefficient j (0-based): mean over i of value at lag j + 1 / value at i
ArimaCoefficient(ys, j) ==
    LET n == Len(ys) - p
        RECURSIVE Total(_)
        Total(i) == IF i = 0 THEN R(0)
                    ELSE Add(Total(i - 1), Div(ys[i + p - j - 1], ys[i + p]))
    IN  Div(Total(n), R(n))

\* the coefficients as they are before the division by their sum
NormalizedCoefNotDivided(ys) == [j \in 1..p |-> ArimaCoefficient(ys, j - 1)]

\* coefficients.map(c => c / sumCoef)
NormalizedCoef(ys) ==
    LET coefficients == [j \in 1..p |-> ArimaCoefficient(ys, j - 1)]
        sumCoef == SumSeq(coefficients)
    IN  [j \in 1..p |-> Div(coefficients[j], sumCoef)]

\* the k values the rolling loop predicts from the window recentValues
RECURSIVE ArimaRoll(_, _, _)
ArimaRoll(recentValues, coef, k) ==
    IF k = 0 THEN <<>>
    ELSE LET RECURSIVE Acc(_)
             Acc(j) == IF j = 0 THEN R(0)
                       ELSE Add(Acc(j - 1),
                                Mul(recentValues[Len(recentValues) - (j - 1)], coef[j]))
             predicted == Acc(p)
         IN  <<predicted>> \o ArimaRoll(Append(Tail(recentValues), predicted), coef, k - 1)

\* arimaPrediction past its length check
arimaAutoRegression(historicalData, targetYear, targetMonth) ==
    LET n == Len(historicalData)
        lastData == historicalData[n]
        walk == MonthWalk(lastData.year, lastData.month, targetYear, targetMonth)
        rawPrice == ArimaRoll(LastK(Prices(historicalData), p),
                              NormalizedCoef(Prices(historicalData)), Len(walk))
        rawSales == ArimaRoll(LastK(Sales(historicalData), p),
                              NormalizedCoef(Sales(historicalData)), Len(walk))
    IN  PredictedPoints(lastData, walk, rawPrice, rawSales)

\* mutant: the fallback is taken below p points, not below p + 1
arimaPredictionLateFallback(historicalData, targetYear, targetMonth) ==
    IF Len(historicalData) < p
    THEN linearPrediction(historicalData, targetYear, targetMonth)
    ELSE arimaAutoRegression(historicalData, targetYear, targetMonth)

arimaPrediction(historicalData, targetYear, targetMonth) ==
    IF Len(historicalData) < p + 1
    THEN linearPrediction(historicalData, targetYear, targetMonth)
    ELSE arimaAutoRegression(historicalData, targetYear, targetMonth)

(***************************************************************************)
(* The dispatcher                                                          *)
(***************************************************************************)
PredictionMethod ==
    {"linear", "polynomial", "exponential", "seasonal", "moving-average",
     "weighted-moving-average", "exponential-smoothing", "holt-winters", "arima"}

\* the target is not after the last historical point
NotInFuture(lastData, targetYear, targetMonth) ==
    targetYear < lastData.year
    \/ (targetYear = lastData.year /\ targetMonth <= lastData.month)

\* mutant: histories of two points are let through
TooShortBelowTwo(historicalData) == Len(historicalData) < 2

\* historicalData.length < 3
TooShort(historicalData) == Len(historicalData) < 3

generatePredictions(historicalData, targetYear, targetMonth, method) ==
    IF TooShort(historicalData) THEN <<>>
    ELSE IF NotInFuture(historicalData[Len(historicalData)], targetYear, targetMonth) THEN <<>>
    ELSE CASE method = "linear" -> linearPrediction(historicalData, targetYear, targetMonth)
           [] method = "polynomial" -> polynomialPrediction(historicalData, targetYear, targetMonth)
           [] method = "exponential" -> exponentialPrediction(historicalData, targetYear, targetMonth)
           [] method = "seasonal" -> seasonalPrediction(historicalData, targetYear, targetMonth)
           [] method = "moving-average" ->
                  movingAveragePrediction(historicalData, targetYear, targetMonth)
           [] method = "weighted-moving-average" ->
                  weightedMovingAveragePrediction(historicalData, targetYear, targetMonth)
           [] method = "exponential-smoothing" ->
                  exponentialSmoothingPrediction(historicalData, targetYear, targetMonth)
           [] method = "holt-winters" -> holtWintersPrediction(historicalData, targetYear, targetMonth)
           [] method = "arima" -> arimaPrediction(historicalData, targetYear, targetMonth)
           [] OTHER -> linearPrediction(historicalData, targetYear, targetMonth)

(***************************************************************************)
(* The seasonal predictions of SalesByCategoryChart and of the earlier     *)
(* GeneralSalePriceStats                                                   *)
(***************************************************************************)
\* historicalData.length < 6
TooShortForSmart(historicalData) == Len(historicalData) < 6

generateSmartSalesPredictions(historicalData, targetYear, targetMonth) ==
    IF TooShortForSmart(historicalData) THEN <<>>
    ELSE LET lastData == historicalData[Len(historicalData)]
             walk == MonthWalk(lastData.year, lastData.month, targetYear, targetMonth)
             sales == SeasonalFit(historicalData, Sales(historicalData))
         IN  [j \in 1..Len(walk) |->
                 [year |-> walk[j].year,
                  month |-> walk[j].month,
                  totalAmount |-> Max0(SeasonalValue(sales, walk[j].month, j)),
                  isPredicted |-> TRUE]]

generateSmartPredictions(historicalData, targetYear, targetMonth) ==
    IF TooShortForSmart(historicalData) THEN <<>>
    ELSE seasonalPrediction(historicalData, targetYear, targetMonth)

(***************************************************************************)
(* GeneralSalePriceStats: the historical series with its change fields     *)
(***************************************************************************)
\* the sort comparator (a.year - b.year) || (a.month - b.month) is <= 0
InOrder(a, b) == a.year < b.year \/ (a.year = b.year /\ a.month <= b.month)

\* Array.prototype.sort with that comparator: a stable insertion of each
\* element behind the elements it does not precede
RECURSIVE SortByMonth(_)
SortByMonth(s) ==
    IF s = <<>> THEN <<>>
    ELSE LET front == SortByMonth(SubSeq(s, 1, Len(s) - 1))
             x == s[Len(s)]
             k == Cardinality({i \in 1..Len(front) : InOrder(front[i], x)})
         IN  SubSeq(front, 1, k) \o <<x>> \o SubSeq(front, k + 1, Len(front))

\* sorted.map((item, index) => ...): the change fields against the predecessor
WithChanges(sorted) ==
    [index \in 1..Len(sorted) |->
        LET item == sorted[index]
        IN  IF index = 1
            THEN [year |-> item.year, month |-> item.month,
                  avgPrice |-> item.avgPrice, totalAmount |-> item.totalAmount,
                  priceChange |-> R(0), salesChange |-> R(0),
                  priceChangePercent |-> R(0), salesChangePercent |-> R(0),
                  isPredicted |-> FALSE]
            ELSE LET prev == sorted[index - 1]
                 IN  [year |-> item.year, month |-> item.month,
                      avgPrice |-> item.avgPrice, totalAmount |-> item.totalAmount,
                      priceChange |-> Sub(item.avgPrice, prev.avgPrice),
                      salesChange |-> Sub(item.totalAmount, prev.totalAmount),
                      priceChangePercent |->
                          Mul(Div(Sub(item.avgPrice, prev.avgPrice), prev.avgPrice), R(100)),
                      salesChangePercent |->
                          Mul(Div(Sub(item.totalAmount, prev.totalAmount), prev.totalAmount),
                              R(100)),
                      isPredicted |-> FALSE]]

(***************************************************************************)
(* SalesByCategoryChart: from the raw records to the combined series       *)
(***************************************************************************)
\* salesData.sort(...): the array of the caller, sorted in place
sortedDataOf(sales) == SortByMonth(sales)

\* mutant: only the first record is dropped, slice(1)
completeMonthsKeepLast(sorted) ==
    IF Len(sorted) <= 2 THEN <<>> ELSE SubSeq(sorted, 2, Len(sorted))

\* sortedData.slice(1, sortedData.length - 1), nothing of two records or less
completeMonthsOf(sorted) ==
    IF Len(sorted) <= 2 THEN <<>> ELSE SubSeq(sorted, 2, Len(sorted) - 1)

\* the positions of the map's entries holding the key `${d.year}-${d.month}`
EntriesOf(map, d) == {k \in 1..Len(map) : map[k].year = d.year /\ map[k].month = d.month}

\* map.set(key, {...}): the entry of a month's first record
NewEntry(d, selected) ==
    IF selected = "Total"
    THEN [year |-> d.year, month |-> d.month, totalAmount |-> d.totalAmount,
          isPredicted |-> FALSE]
    ELSE [year |-> d.year, month |-> d.month, totalAmount |-> d.totalAmount,
          category |-> d.category, isPredicted |-> FALSE]

\* mutant: a month's later record replaces the entry, = for +=
AggregateStepOverwrite(map, d, selected) ==
    IF selected = "Total" \/ d.category = selected
    THEN IF EntriesOf(map, d) # {}
         THEN [k \in 1..Len(map) |->
                  IF k \in EntriesOf(map, d)
                  THEN [map[k] EXCEPT !.totalAmount = d.totalAmount]
                  ELSE map[k]]
         ELSE Append(map, NewEntry(d, selected))
    ELSE map

\* the body of completeMonths.forEach: the record is added to its month's
\* entry, or opens it, when the filter lets it through
AggregateStep(map, d, selected) ==
    IF selected = "Total" \/ d.category = selected
    THEN IF EntriesOf(map, d) # {}
         THEN [k \in 1..Len(map) |->
                  IF k \in EntriesOf(map, d)
                  THEN [map[k] EXCEPT !.totalAmount = Add(@, d.totalAmount)]
                  ELSE map[k]]
         ELSE Append(map, NewEntry(d, selected))
    ELSE map

\* completeMonths.forEach(...) from record i on; map holds the entries in
\* the order of their insertion
RECURSIVE AggregateLoop(_, _, _, _)
AggregateLoop(complete, i, map, selected) ==
    IF i > Len(complete) THEN map
    ELSE AggregateLoop(complete, i + 1, AggregateStep(map, complete[i], selected), selected)

\* Array.from(map.values()).sort(...)
aggregatedDataOf(sales, selected) ==
    SortByMonth(AggregateLoop(completeMonthsOf(sortedDataOf(sales)), 1, <<>>, selected))

\* Array.from(new Set(salesData.map(d => d.category)))
categoriesOf(sales) == {sales[i].category : i \in 1..Len(sales)}

\* the years a prediction setting may name
YearRange == 2020..2030

\* the values of the year select: year.toString() of the years of the data
\* and of the two years after the latest; Math.max() of no year is -Infinity
availableYearsOf(data) ==
    IF data = <<>> THEN {"-Infinity"}
    ELSE LET years == {data[i].year : i \in 1..Len(data)}
             maxYear == CHOOSE y \in years : \A z \in years : z <= y
         IN  {ToString(y) : y \in years \cup {maxYear + 1, maxYear + 2}}

\* the values of the month select: (idx + 1).toString()
MonthOptions == {ToString(idx + 1) : idx \in 0..11}

\* parseInt on the value of a select: the number it is the decimal of, NaN
\* for "-Infinity"
ParseInt(s) ==
    IF \E i \in (1..12) \cup YearRange : ToString(i) = s
    THEN R(CHOOSE i \in (1..12) \cup YearRange : ToString(i) = s)
    ELSE NaN

\* targetYear < lastData.year || (targetYear === lastData.year &&
\* targetMonth <= lastData.month), on parsed numbers
ParsedNotInFuture(lastData, year, month) ==
    \/ Lt(year, R(lastData.year))
    \/ (~IsNaN(year) /\ year = R(lastData.year)
        /\ (Lt(month, R(lastData.month)) \/ (~IsNaN(month) /\ month = R(lastData.month))))

\* generateSmartSalesPredictions on parsed numbers; against NaN both tests of
\* its loop are false and it returns no point
SmartSalesPredictions(data, year, month) ==
    IF IsNaN(year) \/ IsNaN(month) THEN <<>>
    ELSE generateSmartSalesPredictions(data, year.n, month.n)

\* the predictions as the forecast returns them, whatever the selection
WithCategoryLeftOut(points, selected) == points

\* predictions.map(p => ({...p, ...(selectedCategory !== "Total" && {category})}))
WithCategory(points, selected) ==
    IF selected = "Total" THEN points
    ELSE [j \in 1..Len(points) |->
             [year |-> points[j].year, month |-> points[j].month,
              totalAmount |-> points[j].totalAmount, category |-> selected,
              isPredicted |-> points[j].isPredicted]]

\* mutant: a target that is not ahead empties the series
salesDataWithPredictionsEmptied(data, enable, year, month, selected) ==
    IF ~enable \/ year = "" \/ month = "" \/ Len(data) = 0 THEN data
    ELSE IF ParsedNotInFuture(data[Len(data)], ParseInt(year), ParseInt(month)) THEN <<>>
    ELSE data \o WithCategory(SmartSalesPredictions(data, ParseInt(year), ParseInt(month)),
                              selected)

\* dataWithPredictions of SalesByCategoryChart
salesDataWithPredictions(data, enable, year, month, selected) ==
    IF ~enable \/ year = "" \/ month = "" \/ Len(data) = 0 THEN data
    ELSE IF ParsedNotInFuture(data[Len(data)], ParseInt(year), ParseInt(month)) THEN data
    ELSE data \o WithCategory(SmartSalesPredictions(data, ParseInt(year), ParseInt(month)),
                              selected)

\* months from the last point of the data to the target of the settings, 0
\* when no target is set or it is not ahead
Horizon(data, enable, year, month) ==
    IF ~enable \/ year = "" \/ month = "" \/ Len(data) = 0 THEN 0
    ELSE IF IsNaN(ParseInt(year)) \/ IsNaN(ParseInt(month)) THEN 0
    ELSE Max(0, 12 * (ParseInt(year).n - data[Len(data)].year)
                    + (ParseInt(month).n - data[Len(data)].month))

(***************************************************************************)
(* GeneralSalePriceStats: from the monthly records to the combined series  *)
(***************************************************************************)
\* allFormattedData: a sorted copy of chartData, without its first and last
\* record when it holds more than two, with the change fields
allFormattedDataOf(chart) ==
    LET sorted == SortByMonth(chart)
    IN  WithChanges(IF Len(sorted) > 2 THEN SubSeq(sorted, 2, Len(sorted) - 1) ELSE sorted)

\* max of the prediction period slider
MaxPredictionMonths == 24

\* the loop run while targetMonth >= 12
RECURSIVE NormalizeTargetAtTwelve(_, _)
NormalizeTargetAtTwelve(year, month) ==
    IF month >= 12 THEN NormalizeTargetAtTwelve(year + 1, month - 12)
    ELSE [year |-> year, month |-> month]

\* while (targetMonth > 12) { targetMonth -= 12; targetYear++; }
RECURSIVE NormalizeTarget(_, _)
NormalizeTarget(year, month) ==
    IF month > 12 THEN NormalizeTarget(year + 1, month - 12)
    ELSE [year |-> year, month |-> month]

\* the target predictionMonths months after the last point
TargetAfter(lastData, months) == NormalizeTarget(lastData.year, lastData.month + months)

\* dataWithPredictions of GeneralSalePriceStats
statsDataWithPredictions(data, enable, months, selectedMethod) ==
    IF ~enable \/ months = 0 \/ Len(data) = 0 THEN data
    ELSE LET target == TargetAfter(data[Len(data)], months)
         IN  data \o generatePredictions(data, target.year, target.month, selectedMethod)

(***************************************************************************)
(* GeneralSalePriceStats of part_000, with a target year and month         *)
(***************************************************************************)
\* lastData.year is read of an undefined lastData: the render throws
part000Throws(data, enable, year, month) ==
    enable /\ year # "" /\ month # "" /\ Len(data) = 0

\* generateSmartPredictions on parsed numbers; against NaN both tests of its
\* loop are false and it returns no point
SmartPredictions(data, year, month) ==
    IF IsNaN(year) \/ IsNaN(month) THEN <<>>
    ELSE generateSmartPredictions(data, year.n, month.n)

\* dataWithPredictions of part_000, where it does not throw
part000DataWithPredictions(data, enable, year, month) ==
    IF ~enable \/ year = "" \/ month = "" \/ Len(data) = 0 THEN data
    ELSE IF ParsedNotInFuture(data[Len(data)], ParseInt(year), ParseInt(month)) THEN data
    ELSE data \o SmartPredictions(data, ParseInt(year), ParseInt(month))

(***************************************************************************)
(* The window of the range slider and the analytics over it                *)
(***************************************************************************)
\* Array.prototype.slice(start, end)
Slice(arr, start, end) ==
    LET len == Len(arr)
        from == IF start < 0 THEN Max(len + start, 0) ELSE Min(start, len)
        to == IF end < 0 THEN Max(len + end, 0) ELSE Min(end, len)
    IN  IF from < to THEN SubSeq(arr, from + 1, to) ELSE <<>>

\* Math.round(x)
Round(x) == IF x.d = 0 THEN x ELSE R((2 * x.n + x.d) \div (2 * x.d))

monthNames ==
    <<"Jan", "Feb", "Mar", "Apr", "May", "Jun", "Jul", "Aug", "Sep", "Oct", "Nov", "Dec">>

\* seasonalTotals that counts the predicted points of 2023 too
seasonalTotalsOfAllPoints(displayed) ==
    LET RECURSIVE Loop(_)
        Loop(i) ==
            IF i = 0 THEN [Winter |-> R(0), Spring |-> R(0), Summer |-> R(0), Fall |-> R(0)]
            ELSE LET seasons == Loop(i - 1)
                     d == displayed[i]
                 IN  IF ~(d.year = 2023) THEN seasons
                     ELSE IF d.month \in {12, 1, 2}
                          THEN [seasons EXCEPT !.Winter = Add(@, d.totalAmount)]
                     ELSE IF d.month \in {3, 4, 5}
                          THEN [seasons EXCEPT !.Spring = Add(@, d.totalAmount)]
                     ELSE IF d.month \in {6, 7, 8}
                          THEN [seasons EXCEPT !.Summer = Add(@, d.totalAmount)]
                     ELSE [seasons EXCEPT !.Fall = Add(@, d.totalAmount)]
    IN  Loop(Len(displayed))

\* SalesByCategoryChart.seasonalTotals over displayedData
seasonalTotals(displayed) ==
    LET RECURSIVE Loop(_)
        Loop(i) ==
            IF i = 0 THEN [Winter |-> R(0), Spring |-> R(0), Summer |-> R(0), Fall |-> R(0)]
            ELSE LET seasons == Loop(i - 1)
                     d == displayed[i]
                 IN  IF ~(d.year = 2023 /\ ~d.isPredicted) THEN seasons
                     ELSE IF d.month \in {12, 1, 2}
                          THEN [seasons EXCEPT !.Winter = Add(@, d.totalAmount)]
                     ELSE IF d.month \in {3, 4, 5}
                          THEN [seasons EXCEPT !.Spring = Add(@, d.totalAmount)]
                     ELSE IF d.month \in {6, 7, 8}
                          THEN [seasons EXCEPT !.Summer = Add(@, d.totalAmount)]
                     ELSE [seasons EXCEPT !.Fall = Add(@, d.totalAmount)]
    IN  Loop(Len(displayed))

\* getSeasonMessage: the entries of seasonalTotals in the order of their keys,
\* sorted (stably) by total from the largest; the text without a season, or
\* the two names the other text is made of
getSeasonMessage(totals) ==
    LET keys == <<"Winter", "Spring", "Summer", "Fall">>
        Before(i, j) == Gt(totals[keys[i]], totals[keys[j]])
                            \/ (~Gt(totals[keys[j]], totals[keys[i]]) /\ i < j)
        place == [i \in 1..4 |-> 1 + Cardinality({j \in 1..4 : j # i /\ Before(j, i)})]
        entries == [k \in 1..4 |-> keys[CHOOSE i \in 1..4 : place[i] = k]]
    IN  IF totals[entries[1]] = R(0)
        THEN [message |-> "No 2023 data available for seasonal analysis"]
        ELSE [peak |-> entries[1], low |-> entries[4]]

\* getMaxAndMinSale that keeps the two Junes
getMaxAndMinSaleOfEveryMonth(displayed) ==
    LET kept == {i \in 1..Len(displayed) : ~displayed[i].isPredicted}
        maxValue == (CHOOSE i \in kept :
                        \A j \in kept : ~Gt(displayed[j].totalAmount, displayed[i].totalAmount))
        minValue == (CHOOSE i \in kept :
                        \A j \in kept : ~Lt(displayed[j].totalAmount, displayed[i].totalAmount))
        objOfMax == {i \in kept : displayed[i].totalAmount = displayed[maxValue].totalAmount}
        objOfMin == {i \in kept : displayed[i].totalAmount = displayed[minValue].totalAmount}
        firstMax == displayed[CHOOSE i \in objOfMax : \A j \in objOfMax : i <= j]
        firstMin == displayed[CHOOSE i \in objOfMin : \A j \in objOfMin : i <= j]
    IN  IF kept = {} THEN [message |-> "No data available"]
        ELSE [max |-> Round(firstMax.totalAmount),
              maxMonth |-> monthNames[firstMax.month],
              maxYear |-> firstMax.year,
              min |-> Round(firstMin.totalAmount),
              minMonth |-> monthNames[firstMin.month],
              minYear |-> firstMin.year]

\* getMaxAndMinSale: the text without values, or the values the other text
\* is made of
getMaxAndMinSale(displayed) ==
    LET kept == {i \in 1..Len(displayed) :
                    /\ ~displayed[i].isPredicted
                    /\ ~(\/ displayed[i].year = 2022 /\ displayed[i].month = 6
                         \/ displayed[i].year = 2024 /\ displayed[i].month = 6)}
        maxValue == (CHOOSE i \in kept :
                        \A j \in kept : ~Gt(displayed[j].totalAmount, displayed[i].totalAmount))
        minValue == (CHOOSE i \in kept :
                        \A j \in kept : ~Lt(displayed[j].totalAmount, displayed[i].totalAmount))
        objOfMax == {i \in kept : displayed[i].totalAmount = displayed[maxValue].totalAmount}
        objOfMin == {i \in kept : displayed[i].totalAmount = displayed[minValue].totalAmount}
        firstMax == displayed[CHOOSE i \in objOfMax : \A j \in objOfMax : i <= j]
        firstMin == displayed[CHOOSE i \in objOfMin : \A j \in objOfMin : i <= j]
    IN  IF kept = {} THEN [message |-> "No data available"]
        ELSE [max |-> Round(firstMax.totalAmount),
              maxMonth |-> monthNames[firstMax.month],
              maxYear |-> firstMax.year,
              min |-> Round(firstMin.totalAmount),
              minMonth |-> monthNames[firstMin.month],
              minYear |-> firstMin.year]

\* inverseCases, directCases and totalCases as the forEach of
\* correlationInsight leaves them
correlationCases(displayed) ==
    LET realData == SelectSeq(displayed, LAMBDA d : ~d.isPredicted)
        cases == {i \in 2..Len(realData) : Gt(Abs(realData[i].priceChangePercent), Norm(1, 2))}
        inverse == {i \in cases :
                       \/ /\ Lt(realData[i].priceChangePercent, R(0))
                          /\ Gt(realData[i].salesChangePercent, R(0))
                       \/ /\ Gt(realData[i].priceChangePercent, R(0))
                          /\ Lt(realData[i].salesChangePercent, R(0))}
        direct == {i \in cases \ inverse :
                      \/ /\ Lt(realData[i].priceChangePercent, R(0))
                         /\ Lt(realData[i].salesChangePercent, R(0))
                      \/ /\ Gt(realData[i].priceChangePercent, R(0))
                         /\ Gt(realData[i].salesChangePercent, R(0))}
    IN  [inverseCases |-> Cardinality(inverse),
         directCases |-> Cardinality(direct),
         totalCases |-> Cardinality(cases)]

\* correlationInsight that does not filter the predicted points out
correlationInsightWithForecast(displayed) ==
    LET realData == displayed
        cases == {i \in 2..Len(realData) : Gt(Abs(realData[i].priceChangePercent), Norm(1, 2))}
        inverse == {i \in cases :
                       \/ /\ Lt(realData[i].priceChangePercent, R(0))
                          /\ Gt(realData[i].salesChangePercent, R(0))
                       \/ /\ Gt(realData[i].priceChangePercent, R(0))
                          /\ Lt(realData[i].salesChangePercent, R(0))}
        totalCases == Cardinality(cases)
        inverseCases == Cardinality(inverse)
    IN  IF Len(realData) < 2 THEN [null |-> TRUE]
        ELSE IF totalCases = 0 THEN [null |-> TRUE]
        ELSE [inversePercent |-> Round(Mul(Div(R(inverseCases), R(totalCases)), R(100))).n]

\* GeneralSalePriceStats.correlationInsight: null, or the percentage that
\* opens the message, (inverseCases / totalCases * 100).toFixed(0), of which
\* the digits are kept as a number
correlationInsight(displayed) ==
    LET realData == SelectSeq(displayed, LAMBDA d : ~d.isPredicted)
        cases == {i \in 2..Len(realData) : Gt(Abs(realData[i].priceChangePercent), Norm(1, 2))}
        inverse == {i \in cases :
                       \/ /\ Lt(realData[i].priceChangePercent, R(0))
                          /\ Gt(realData[i].salesChangePercent, R(0))
                       \/ /\ Gt(realData[i].priceChangePercent, R(0))
                          /\ Lt(realData[i].salesChangePercent, R(0))}
        totalCases == Cardinality(cases)
        inverseCases == Cardinality(inverse)
    IN  IF Len(realData) < 2 THEN [null |-> TRUE]
        ELSE IF totalCases = 0 THEN [null |-> TRUE]
        ELSE [inversePercent |-> Round(Mul(Div(R(inverseCases), R(totalCases)), R(100))).n]

(***************************************************************************)
(* Bounds and inputs                                                       *)
(***************************************************************************)
\* largest amount of a freely chosen history
MaxAmount == 2

\* largest month-to-month step of a linear history
MaxSlope == 1

\* largest number of months a target lies after the last historical point
MaxAhead == 3

\* the (year, month) that lies k months after month startMonth of startYear
MonthAt(startYear, startMonth, k) ==
    [year |-> startYear + ((startMonth - 1 + k) \div 12),
     month |-> ((startMonth - 1 + k) % 12) + 1]

\* monthly records of consecutive months from startMonth of 2023
Series(startMonth, prices, amounts) ==
    [i \in 1..Len(amounts) |->
        [year |-> MonthAt(2023, startMonth, i - 1).year,
         month |-> MonthAt(2023, startMonth, i - 1).month,
         avgPrice |-> R(prices[i]),
         totalAmount |-> R(amounts[i])]]

LongLengths == {4, 8, 12}

\* start month and prices of a history of n points: constant from January,
\* rising by one from September, falling by one to zero from January; the
\* methods compute the two metrics apart from each other
PriceShapes(n) ==
    {<<1, [i \in 1..n |-> 1]>>, <<9, [i \in 1..n |-> i]>>, <<1, [i \in 1..n |-> n - i]>>}

LinearSeqs(n) ==
    {[i \in 1..n |-> a + d * (i - 1)] : a \in 0..MaxSlope, d \in 0..MaxSlope}
        \cup {[i \in 1..n |-> d * (n - i)] : d \in 1..MaxSlope}

\* histories with an exact growth rate other than 1, the spec's scenario, and
\* four months of values above 0 that neither rise nor fall throughout
NamedSeries ==
    {Series(1, <<1, 3, 8>>, <<8, 3, 1>>),
     Series(11, <<8, 3, 1>>, <<1, 3, 8>>),
     Series(1, <<5, 4, 3>>, <<100, 110, 120>>),
     Series(11, <<2, 5, 3, 4>>, <<5, 1, 4, 2>>)}

\* histories the dispatcher turns down for their length
TooShortHistories ==
    {WithChanges(Series(1, [i \in 1..n |-> 1], [i \in 1..n |-> i])) : n \in 0..2}

\* every history of three points over the amounts 0..MaxAmount
ShortHistories ==
    {WithChanges(Series(pr[1], pr[2], am)) :
        pr \in PriceShapes(3), am \in [1..3 -> 0..MaxAmount]}

LongHistories ==
    UNION {{WithChanges(Series(pr[1], pr[2], am)) :
                pr \in PriceShapes(n), am \in LinearSeqs(n)} :
           n \in LongLengths}

Histories ==
    TooShortHistories \cup ShortHistories \cup LongHistories
        \cup {WithChanges(s) : s \in NamedSeries}

\* the targets tried on a history: the (year, month) pairs, months 0 and 13
\* included, up to MaxAhead months after its last point, and of those not
\* after it the same month, the month before and both Decembers
Targets(history) ==
    IF history = <<>> THEN {[year |-> 2023, month |-> 6]}
    ELSE LET lastData == history[Len(history)]
         IN  {t \in [year : (lastData.year - 1)..(lastData.year + 1), month : 0..13] :
                 Len(MonthWalk(lastData.year, lastData.month, t.year, t.month)) <= MaxAhead
                 /\ (NotInFuture(lastData, t.year, t.month) =>
                        /\ t.month \in {lastData.month - 1, lastData.month, 12}
                        /\ t.year = lastData.year \/ t.month = 12)}

\* largest number of months a target lies after a history of one year
MaxSeasonAhead == 12

\* twelve values, all 100 except 200 in month m
Spike(m) == [i \in 1..12 |-> IF i = m THEN 200 ELSE 100]

\* January to December of 2023 with a spike of the amounts in one month and
\* the prices either flat or with the same spike
SpikeHistories ==
    UNION {{WithChanges(Series(1, [i \in 1..12 |-> 100], Spike(m))),
            WithChanges(Series(1, Spike(m), Spike(m)))} : m \in 1..12}

\* Math.pow(last / first, 1 / n) is a fraction for both metrics
HasExactGrowthRate(history) ==
    /\ history # <<>>
    /\ HasRoot(Div(history[Len(history)].avgPrice, history[1].avgPrice), Len(history))
    /\ HasRoot(Div(history[Len(history)].totalAmount, history[1].totalAmount), Len(history))

\* every value of the sequence is the same
IsConstant(ys) == \A i \in 1..Len(ys) : ys[i] = ys[1]

\* the fractions the method computes on this history stay within the integers
\* of the model checker: an exact growth rate for exponential, and for arima
\* a history of at most p + 1 points or a constant one
Representable(history, m) ==
    /\ (m = "exponential" /\ ~TooShort(history)) => HasExactGrowthRate(history)
    /\ m = "arima" =>
          \/ Len(history) <= p + 1
          \/ IsConstant(Prices(history)) /\ IsConstant(Sales(history))

\* longest history whose least-squares denominators are computed
MaxLength == 18

\* raw records tried on the aggregation: at most MaxRecords of them
MaxRecords == 4

\* the range slider is moved at most MaxTrim positions in from either end
MaxTrim == 1

RawMonths ==
    {[year |-> 2023, month |-> 12], [year |-> 2024, month |-> 1],
     [year |-> 2024, month |-> 2]}

RawCategories == {"Red", "White"}

\* 2^k
RECURSIVE TwoTo(_)
TwoTo(k) == IF k = 0 THEN 1 ELSE 2 * TwoTo(k - 1)

\* raw records in every order of their months and categories; the record at
\* position k has the amount 2^(k-1), so that an amount tells its record
RawInputs ==
    UNION {{[k \in 1..n |->
                [year |-> ym[k].year, month |-> ym[k].month, category |-> cat[k],
                 totalAmount |-> R(TwoTo(k - 1))]] :
            ym \in [1..n -> RawMonths], cat \in [1..n -> RawCategories]} :
           n \in 0..MaxRecords}

\* a raw record
Rec(year, month, category, amount) ==
    [year |-> year, month |-> month, category |-> category, totalAmount |-> R(amount)]

\* five records of three categories, the first and the last of a category of
\* their own
FiveRecords ==
    <<Rec(2024, 1, "White", 4), Rec(2023, 11, "Rose", 1), Rec(2023, 12, "Red", 2),
      Rec(2024, 2, "Gold", 16), Rec(2023, 12, "Red", 8)>>

\* one category, June 2023 to January 2024, latest first
EightMonths ==
    [k \in 1..8 |-> Rec(MonthAt(2023, 6, 8 - k).year, MonthAt(2023, 6, 8 - k).month,
                        "Red", 9 - k)]

\* three categories: the months June to November 2023 of Red, two of them of
\* White too, one record twice, and Rose in the first record only
MixedRecords ==
    <<Rec(2023, 12, "White", 3), Rec(2023, 8, "White", 1), Rec(2023, 6, "Red", 1),
      Rec(2023, 7, "Red", 2), Rec(2023, 8, "Red", 1), Rec(2023, 9, "Red", 2),
      Rec(2023, 5, "Rose", 5), Rec(2023, 10, "Red", 3), Rec(2023, 11, "Red", 2),
      Rec(2023, 7, "White", 1), Rec(2023, 6, "Red", 1)>>

\* records of three years with the three Junes among them, of which those of
\* 2022 and 2024 have the largest and the smallest amount
JuneRecords ==
    <<Rec(2022, 5, "Red", 1), Rec(2022, 6, "Red", 9), Rec(2023, 6, "Red", 3),
      Rec(2023, 7, "White", 3), Rec(2024, 6, "Red", 1), Rec(2024, 7, "Red", 2),
      Rec(2024, 8, "White", 2), Rec(2024, 9, "Red", 1)>>

\* the salesData of the charts that are followed through their settings
SalesDatasets ==
    {EightMonths, MixedRecords, FiveRecords, SubSeq(FiveRecords, 1, 2), JuneRecords}

\* a monthly record of both metrics
PriceRec(year, month, price, amount) ==
    [year |-> year, month |-> month, avgPrice |-> R(price), totalAmount |-> R(amount)]

\* the chartData of GeneralSalePriceStats: none, two records, five months in
\* a row, six records out of order, five records with February twice, and
\* August to December with the same price and amount
ChartDatasets ==
    {<<>>,
     [k \in 1..5 |-> PriceRec(2023, 7 + k, 2, 3)],
     <<PriceRec(2023, 12, 2, 1), PriceRec(2023, 11, 1, 2)>>,
     <<PriceRec(2023, 11, 1, 7), PriceRec(2023, 12, 8, 1), PriceRec(2024, 1, 4, 2),
       PriceRec(2024, 2, 2, 4), PriceRec(2024, 3, 1, 1)>>,
     <<PriceRec(2023, 5, 1, 1), PriceRec(2023, 2, 2, 2), PriceRec(2023, 3, 2, 3),
       PriceRec(2023, 1, 3, 3), PriceRec(2023, 4, 1, 4), PriceRec(2023, 6, 1, 1)>>,
     <<PriceRec(2023, 1, 1, 1), PriceRec(2023, 2, 1, 2), PriceRec(2023, 2, 2, 1),
       PriceRec(2023, 3, 1, 2), PriceRec(2023, 4, 1, 1)>>}

\* seven months of which the third has a price 0.5 percent above the second,
\* the fourth the price of the third, and the sixth the amount of the fifth
SmallChanges ==
    <<PriceRec(2023, 1, 200, 5), PriceRec(2023, 2, 200, 5), PriceRec(2023, 3, 201, 5),
      PriceRec(2023, 4, 201, 4), PriceRec(2023, 5, 402, 2), PriceRec(2023, 6, 201, 2),
      PriceRec(2023, 7, 100, 9)>>

\* the chartData of the part_000 component: none, three records, eight
\* months in a row, and the seven months above
Part000Datasets ==
    {<<>>, SmallChanges,
     <<PriceRec(2023, 3, 1, 1), PriceRec(2023, 1, 1, 2), PriceRec(2023, 2, 2, 1)>>,
     [k \in 1..8 |-> PriceRec(MonthAt(2023, 6, k - 1).year, MonthAt(2023, 6, k - 1).month,
                              1 + (k % 2), k)]}

(***************************************************************************)
(* State                                                                   *)
(***************************************************************************)
VARIABLES
    component,          \* which of the components this behaviour follows
    historicalData,     \* forecast: the history handed to the entry point
    targetYear,         \* forecast: the target of the call
    targetMonth,
    method,             \* forecast: the method of the call
    called,             \* forecast: the entry point that was called
    predictions,        \* forecast: what the call returned
    salesData,          \* SalesByCategoryChart: the array of the prop
    chartData,          \* GeneralSalePriceStats: the array of the prop
    mounted,            \* "no" before the first render, "yes", "threw"
    selectedCategory,   \* useState of the components
    enablePrediction,
    predictionYear,
    predictionMonth,
    predictionMonths,
    predictionMethod,
    rangeValues,
    dataWithPredictions \* useMemo of the components: the combined series

forecastVars == <<historicalData, targetYear, targetMonth, method, called, predictions>>

propVars == <<component, salesData, chartData>>

hookVars ==
    <<mounted, selectedCategory, enablePrediction, predictionYear, predictionMonth,
      predictionMonths, predictionMethod, rangeValues, dataWithPredictions>>

vars == <<propVars, forecastVars, hookVars>>

\* no entry point has been called
NoCall ==
    /\ historicalData = <<>>
    /\ targetYear = 0
    /\ targetMonth = 0
    /\ method = "none"
    /\ called = "none"
    /\ predictions = <<>>

\* the initial values of the hooks
InitialHooks ==
    /\ mounted = "no"
    /\ selectedCategory = "Total"
    /\ enablePrediction = FALSE
    /\ predictionYear = ""
    /\ predictionMonth = ""
    /\ predictionMonths = 6
    /\ predictionMethod = "linear"
    /\ rangeValues = <<0, 0>>
    /\ dataWithPredictions = <<>>

(***************************************************************************)
(* The forecast entry points, called on a chosen history                   *)
(***************************************************************************)
InitForecast ==
    /\ component = "forecast"
    /\ historicalData \in Histories
    /\ targetYear = 0
    /\ targetMonth = 0
    /\ method = "none"
    /\ called = "none"
    /\ predictions = <<>>
    /\ salesData = <<>>
    /\ chartData = <<>>
    /\ InitialHooks

\* generatePredictions(historicalData, targetYear, targetMonth, method)
CallGeneratePredictions ==
    /\ component = "forecast"
    /\ called = "none"
    /\ \E m \in PredictionMethod, t \in Targets(historicalData) :
          /\ Representable(historicalData, m)
          /\ method' = m
          /\ targetYear' = t.year
          /\ targetMonth' = t.month
          /\ predictions' = generatePredictions(historicalData, t.year, t.month, m)
    /\ called' = "generatePredictions"
    /\ UNCHANGED <<propVars, historicalData, hookVars>>

\* generateSmartSalesPredictions(historicalData, targetYear, targetMonth)
CallGenerateSmartSalesPredictions ==
    /\ component = "forecast"
    /\ called = "none"
    /\ \E t \in Targets(historicalData) :
          /\ targetYear' = t.year
          /\ targetMonth' = t.month
          /\ predictions' = generateSmartSalesPredictions(historicalData, t.year, t.month)
    /\ called' = "generateSmartSalesPredictions"
    /\ method' = "seasonal"
    /\ UNCHANGED <<propVars, historicalData, hookVars>>

\* generateSmartPredictions(historicalData, targetYear, targetMonth)
CallGenerateSmartPredictions ==
    /\ component = "forecast"
    /\ called = "none"
    /\ \E t \in Targets(historicalData) :
          /\ targetYear' = t.year
          /\ targetMonth' = t.month
          /\ predictions' = generateSmartPredictions(historicalData, t.year, t.month)
    /\ called' = "generateSmartPredictions"
    /\ method' = "seasonal"
    /\ UNCHANGED <<propVars, historicalData, hookVars>>

NextForecast ==
    \/ CallGeneratePredictions
    \/ CallGenerateSmartSalesPredictions
    \/ CallGenerateSmartPredictions

SpecForecast == InitForecast /\ [][NextForecast]_vars

\* seasonalPrediction on a history of one year, as generatePredictions calls
\* it for method "seasonal" and a target up to MaxSeasonAhead months ahead;
\* the values are kept as fractions of wide numbers
InitSeasonal ==
    /\ component = "seasonal"
    /\ historicalData \in SpikeHistories
    /\ targetYear = 0
    /\ targetMonth = 0
    /\ method = "none"
    /\ called = "none"
    /\ predictions = <<>>
    /\ salesData = <<>>
    /\ chartData = <<>>
    /\ InitialHooks

CallSeasonalPrediction ==
    /\ component = "seasonal"
    /\ called = "none"
    /\ \E k \in 1..MaxSeasonAhead :
          LET lastData == historicalData[Len(historicalData)]
              t == MonthAt(lastData.year, lastData.month, k)
          IN  /\ ~TooShort(historicalData)
              /\ ~NotInFuture(lastData, t.year, t.month)
              /\ targetYear' = t.year
              /\ targetMonth' = t.month
              /\ predictions' = WideSeasonalPrediction(historicalData, t.year, t.month)
    /\ called' = "seasonalPrediction"
    /\ method' = "seasonal"
    /\ UNCHANGED <<propVars, historicalData, hookVars>>

SpecSeasonal == InitSeasonal /\ [][CallSeasonalPrediction]_vars

(***************************************************************************)
(* SalesByCategoryChart and the part_000 component: renders and handlers   *)
(***************************************************************************)
\* the historical series of the component under a category selection
HistoricalSeries(selected) ==
    IF component = "sales" THEN aggregatedDataOf(salesData, selected)
    ELSE allFormattedDataOf(chartData)

aggregatedData == aggregatedDataOf(salesData, selectedCategory)

allFormattedData == allFormattedDataOf(chartData)

\* displayedData that ends before the point at rangeValues[1]
displayedDataExclusive == Slice(dataWithPredictions, rangeValues[1], rangeValues[2])

\* displayedData of the current render, in the three components
displayedData == Slice(dataWithPredictions, rangeValues[1], rangeValues[2] + 1)

\* the year select's values in the current render
availableYears == availableYearsOf(HistoricalSeries(selectedCategory))

\* dataWithPredictions as a render with these hook values computes it
TargetSeries(selected, enable, year, month) ==
    IF component = "sales"
    THEN salesDataWithPredictions(HistoricalSeries(selected), enable, year, month, selected)
    ELSE part000DataWithPredictions(HistoricalSeries(selected), enable, year, month)

\* the first render: salesData is sorted in place, the series is computed
\* and rangeValues starts as [0, Math.max(0, dataWithPredictions.length - 1)]
Mount ==
    /\ component \in {"sales", "part_000"}
    /\ mounted = "no"
    /\ mounted' = "yes"
    /\ salesData' = sortedDataOf(salesData)
    /\ dataWithPredictions' =
           TargetSeries(selectedCategory, enablePrediction, predictionYear, predictionMonth)
    /\ rangeValues' = <<0, Max(0, Len(dataWithPredictions') - 1)>>
    /\ UNCHANGED <<component, chartData, forecastVars, selectedCategory, enablePrediction,
                   predictionYear, predictionMonth, predictionMonths, predictionMethod>>

\* the render after a state update, and its effect: rangeValues is set to
\* the whole series when the length of the series has changed and is not 0;
\* the render of part_000 that throws takes the component down.  The walk
\* of the render is at most MaxAhead months long.
Render(selected, enable, year, month) ==
    /\ Horizon(HistoricalSeries(selected), enable, year, month) <= MaxAhead
    /\ selectedCategory' = selected
    /\ enablePrediction' = enable
    /\ predictionYear' = year
    /\ predictionMonth' = month
    /\ IF component = "part_000"
            /\ part000Throws(HistoricalSeries(selected), enable, year, month)
       THEN /\ mounted' = "threw"
            /\ UNCHANGED <<dataWithPredictions, rangeValues>>
       ELSE /\ mounted' = mounted
            /\ dataWithPredictions' = TargetSeries(selected, enable, year, month)
            /\ rangeValues' =
                   IF Len(dataWithPredictions') # Len(dataWithPredictions)
                          /\ Len(dataWithPredictions') > 0
                   THEN <<0, Len(dataWithPredictions') - 1>>
                   ELSE rangeValues
    /\ UNCHANGED <<propVars, forecastVars, predictionMonths, predictionMethod>>

\* <Select value={selectedCategory} onValueChange={setSelectedCategory}>
SetSelectedCategory ==
    /\ component = "sales"
    /\ mounted = "yes"
    /\ \E c \in {"Total"} \cup categoriesOf(salesData) :
          Render(c, enablePrediction, predictionYear, predictionMonth)

\* the checkbox: setEnablePrediction(e.target.checked)
SetEnablePrediction ==
    /\ component \in {"sales", "part_000"}
    /\ mounted = "yes"
    /\ Render(selectedCategory, ~enablePrediction, predictionYear, predictionMonth)

\* the year select, rendered while prediction is enabled
SetPredictionYear ==
    /\ component \in {"sales", "part_000"}
    /\ mounted = "yes"
    /\ enablePrediction
    /\ \E val \in availableYears :
          Render(selectedCategory, enablePrediction, val, predictionMonth)

\* the month select, rendered while prediction is enabled
SetPredictionMonth ==
    /\ component \in {"sales", "part_000"}
    /\ mounted = "yes"
    /\ enablePrediction
    /\ \E val \in MonthOptions :
          Render(selectedCategory, enablePrediction, predictionYear, val)

\* the range slider, min 0, max Math.max(0, dataWithPredictions.length - 1),
\* of the three components
SetRangeValues ==
    /\ mounted = "yes"
    /\ LET max == Max(0, Len(dataWithPredictions) - 1)
       IN  \E lo \in 0..Min(MaxTrim, max) :
               \E hi \in Max(lo, max - MaxTrim)..max :
                   rangeValues' = <<lo, hi>>
    /\ UNCHANGED <<propVars, forecastVars, mounted, selectedCategory, enablePrediction,
                   predictionYear, predictionMonth, predictionMonths, predictionMethod,
                   dataWithPredictions>>

\* SalesByCategoryChart on raw records in every order, its category select
InitAggregation ==
    /\ component = "sales"
    /\ salesData \in RawInputs \cup {FiveRecords}
    /\ chartData = <<>>
    /\ NoCall
    /\ InitialHooks

NextAggregation == Mount \/ SetSelectedCategory

SpecAggregation == InitAggregation /\ [][NextAggregation]_vars

\* SalesByCategoryChart with all its controls
InitSales ==
    /\ component = "sales"
    /\ salesData \in SalesDatasets
    /\ chartData = <<>>
    /\ NoCall
    /\ InitialHooks

NextSales ==
    \/ Mount
    \/ SetSelectedCategory
    \/ SetEnablePrediction
    \/ SetPredictionYear
    \/ SetPredictionMonth
    \/ SetRangeValues

SpecSales == InitSales /\ [][NextSales]_vars

\* GeneralSalePriceStats of part_000
InitPart000 ==
    /\ component = "part_000"
    /\ salesData = <<>>
    /\ chartData \in Part000Datasets
    /\ NoCall
    /\ InitialHooks

\* the entry points and components that are given a target year and month
InitTargets == InitForecast \/ InitSales \/ InitPart000

NextTargets == NextForecast \/ NextSales

SpecTargets == InitTargets /\ [][NextTargets]_vars

(***************************************************************************)
(* GeneralSalePriceStats: renders and handlers                             *)
(***************************************************************************)
\* the first render: rangeValues starts as [0, Math.max(0, allFormattedData.length - 1)]
StatsMount ==
    /\ component = "stats"
    /\ mounted = "no"
    /\ mounted' = "yes"
    /\ dataWithPredictions' =
           statsDataWithPredictions(allFormattedData, enablePrediction, predictionMonths,
                                    predictionMethod)
    /\ rangeValues' = <<0, Max(0, Len(allFormattedData) - 1)>>
    /\ UNCHANGED <<propVars, forecastVars, selectedCategory, enablePrediction,
                   predictionYear, predictionMonth, predictionMonths, predictionMethod>>

\* the render after a state update, and its effect on rangeValues
StatsRender(enable, months, selectedMethod) ==
    /\ enablePrediction' = enable
    /\ predictionMonths' = months
    /\ predictionMethod' = selectedMethod
    /\ dataWithPredictions' =
           statsDataWithPredictions(allFormattedData, enable, months, selectedMethod)
    /\ rangeValues' =
           IF Len(dataWithPredictions') # Len(dataWithPredictions)
                  /\ Len(dataWithPredictions') > 0
           THEN <<0, Len(dataWithPredictions') - 1>>
           ELSE rangeValues
    /\ UNCHANGED <<propVars, forecastVars, mounted, selectedCategory, predictionYear,
                   predictionMonth>>

\* the checkbox, the period slider (1..24, moved within 1..MaxAhead) and the
\* method select, the latter two rendered while prediction is enabled
StatsSetEnablePrediction ==
    /\ component = "stats"
    /\ mounted = "yes"
    /\ StatsRender(~enablePrediction, predictionMonths, predictionMethod)

SetPredictionMonths ==
    /\ component = "stats"
    /\ mounted = "yes"
    /\ enablePrediction
    /\ \E val \in 1..Min(MaxPredictionMonths, MaxAhead) :
          StatsRender(enablePrediction, val, predictionMethod)

SetPredictionMethod ==
    /\ component = "stats"
    /\ mounted = "yes"
    /\ enablePrediction
    /\ \E val \in PredictionMethod :
          /\ Representable(allFormattedData, val)
          /\ StatsRender(enablePrediction, predictionMonths, val)

InitStats ==
    /\ component = "stats"
    /\ salesData = <<>>
    /\ chartData \in ChartDatasets
    /\ NoCall
    /\ InitialHooks

NextStats ==
    \/ StatsMount
    \/ StatsSetEnablePrediction
    \/ SetPredictionMonths
    \/ SetPredictionMethod
    \/ SetRangeValues

SpecStats == InitStats /\ [][NextStats]_vars

(***************************************************************************)
(* Properties of the forecast entry points                                 *)
(***************************************************************************)
\* the last historical point of the call
LastHistorical == historicalData[Len(historicalData)]

\* the call's target lies after the last historical point, in a month 1..12
FutureTarget ==
    /\ historicalData # <<>>
    /\ targetMonth \in 1..12
    /\ ~NotInFuture(LastHistorical, targetYear, targetMonth)

\* calendar months from the last historical point to the target
MonthsToTarget ==
    12 * (targetYear - LastHistorical.year) + (targetMonth - LastHistorical.month)

\* the predictions walk the calendar from the month after the last
\* historical point to the target, one month per point
CalendarWalk ==
    /\ Len(predictions) = MonthsToTarget
    /\ \A j \in 1..Len(predictions) :
          /\ predictions[j].month \in 1..12
          /\ 12 * predictions[j].year + predictions[j].month
                 = 12 * LastHistorical.year + LastHistorical.month + j
    /\ predictions[Len(predictions)].year = targetYear
    /\ predictions[Len(predictions)].month = targetMonth

\* C1: whichever of the nine methods the dispatcher runs on a history of at
\* least 3 points with a target (month 1..12) after its last point, the
\* predicted (year, month) pairs start the month after the last historical
\* point, advance one calendar month per point without a skip or a repeat,
\* December being followed by January of the next year, and end exactly on
\* the target.  The seasonal predictions of the chart components walk the
\* same way from the six points on that they ask for.
MonotonicCalendarWalk ==
    /\ (called = "generatePredictions" /\ Len(historicalData) >= 3 /\ FutureTarget)
           => CalendarWalk
    /\ (called \in {"generateSmartSalesPredictions", "generateSmartPredictions"}
            /\ Len(historicalData) >= 6 /\ FutureTarget)
           => CalendarWalk

\* a dispatcher call whose predictions run from a December into the January
\* of the following year
WalkOverYearEnd ==
    /\ called = "generatePredictions"
    /\ Len(predictions) >= 2
    /\ predictions[1].month = 12
    /\ predictions[2].month = 1
    /\ predictions[2].year = predictions[1].year + 1

\* C2: every predicted totalAmount and avgPrice is >= 0, whichever method is
\* selected and whatever history the dispatcher accepts
NonNegativePredictions ==
    called # "none" =>
        \A j \in 1..Len(predictions) :
            /\ Ge(predictions[j].totalAmount, R(0))
            /\ "avgPrice" \in DOMAIN predictions[j] => Ge(predictions[j].avgPrice, R(0))

\* C3: on a history of fewer than 3 points every entry point returns the
\* empty sequence, for every method and every target
ShortHistoryNoForecast ==
    (called # "none" /\ Len(historicalData) < 3) => predictions = <<>>

\* the dispatcher was asked for arima on two points with a target ahead
ShortHistoryAsked ==
    /\ called = "generatePredictions"
    /\ method = "arima"
    /\ Len(historicalData) = 2
    /\ ~NotInFuture(LastHistorical, targetYear, targetMonth)
    /\ predictions = <<>>

\* C5: on a history of fewer than 12 points holt-winters returns, point for
\* point and field for field, what exponential-smoothing returns on the
\* same history and target
HoltWintersFallback ==
    (called = "generatePredictions" /\ method = "holt-winters"
        /\ Len(historicalData) < 12)
        => predictions = generatePredictions(historicalData, targetYear, targetMonth,
                                             "exponential-smoothing")

\* holt-winters predicted from an 8-point history
HoltWintersOnEightPoints ==
    /\ called = "generatePredictions"
    /\ method = "holt-winters"
    /\ Len(historicalData) = 8
    /\ Len(predictions) >= 2

\* C6: on a history of exactly 3 points arima returns what linear returns on
\* the same history and target, and a target after the last point always
\* gets a non-empty forecast
ArimaFallback ==
    (called = "generatePredictions" /\ method = "arima" /\ Len(historicalData) = 3)
        => /\ predictions = generatePredictions(historicalData, targetYear, targetMonth,
                                                "linear")
           /\ ~NotInFuture(LastHistorical, targetYear, targetMonth) => predictions # <<>>

\* arima predicted from a 3-point history whose amounts are not on a line
ArimaOnThreePoints ==
    /\ called = "generatePredictions"
    /\ method = "arima"
    /\ Len(historicalData) = 3
    /\ historicalData[3].salesChange # historicalData[2].salesChange
    /\ Len(predictions) >= 2

\* ys[i] = ys[1] + d * (i - 1) for the step d = ys[2] - ys[1]
IsLinear(ys) == \A i \in 2..Len(ys) : Sub(ys[i], ys[i - 1]) = Sub(ys[2], ys[1])

\* the value the line through ys takes at the 0-based position index, floored at 0
OnTheLine(ys, index) == Max0(Add(ys[1], Mul(Sub(ys[2], ys[1]), R(index))))

\* C10: on a history whose values are a + d * i for i = 0..n-1 (n >= 3) method
\* linear returns, for a target k months after the last point, exactly k
\* points with the values a + d * n, ..., a + d * (n + k - 1) floored at 0,
\* all flagged isPredicted; 100, 110, 120 for January to March 2023 with
\* target June 2023 gives April, May, June with 130, 140, 150
LinearExtrapolation ==
    (called = "generatePredictions" /\ method = "linear" /\ Len(historicalData) >= 3
        /\ FutureTarget)
        => /\ Len(predictions) = MonthsToTarget
           /\ \A j \in 1..Len(predictions) : predictions[j].isPredicted
           /\ IsLinear(Sales(historicalData)) =>
                 \A j \in 1..Len(predictions) :
                     predictions[j].totalAmount
                         = OnTheLine(Sales(historicalData), Len(historicalData) + j - 1)
           /\ IsLinear(Prices(historicalData)) =>
                 \A j \in 1..Len(predictions) :
                     predictions[j].avgPrice
                         = OnTheLine(Prices(historicalData), Len(historicalData) + j - 1)
           /\ (Sales(historicalData) = <<R(100), R(110), R(120)>>
                 /\ LastHistorical.year = 2023 /\ LastHistorical.month = 3
                 /\ targetYear = 2023 /\ targetMonth = 6)
                 => /\ [j \in 1..3 |-> predictions[j].month] = <<4, 5, 6>>
                    /\ [j \in 1..3 |-> predictions[j].year] = <<2023, 2023, 2023>>
                    /\ [j \in 1..3 |-> predictions[j].totalAmount]
                           = <<R(130), R(140), R(150)>>

\* linear predicted April to June 2023 from 100, 110, 120
LinearScenario ==
    /\ called = "generatePredictions"
    /\ method = "linear"
    /\ Sales(historicalData) = <<R(100), R(110), R(120)>>
    /\ targetYear = 2023
    /\ targetMonth = 6
    /\ Len(predictions) = 3
    /\ predictions[3].totalAmount = R(150)
    /\ predictions[3].avgPrice = R(0)

(***************************************************************************)
(* Properties of the components                                            *)
(***************************************************************************)
\* the historical series of the current render
Historical == HistoricalSeries(selectedCategory)

\* the target of the selects, parsed
ParsedYear == ParseInt(predictionYear)

ParsedMonth == ParseInt(predictionMonth)

\* the selects name a (year, month) that is not after the last historical
\* point: an earlier year, or its year and a month not after its month
TargetNotAhead ==
    /\ enablePrediction
    /\ Historical # <<>>
    /\ ~IsNaN(ParsedYear)
    /\ ~IsNaN(ParsedMonth)
    /\ \/ ParsedYear.n < Historical[Len(Historical)].year
       \/ /\ ParsedYear.n = Historical[Len(Historical)].year
          /\ ParsedMonth.n <= Historical[Len(Historical)].month

\* C4: a target that is not strictly after the last historical point (an
\* earlier year, or the same year and a month <= its month) gets no
\* prediction from the dispatcher or from the seasonal entry points, and the
\* combined series of SalesByCategoryChart and of the part_000 component is
\* then the historical series
NoForecastBackward ==
    /\ (called # "none" /\ historicalData # <<>>
            /\ (\/ targetYear < LastHistorical.year
                \/ (targetYear = LastHistorical.year
                        /\ targetMonth <= LastHistorical.month)))
           => predictions = <<>>
    /\ (component \in {"sales", "part_000"} /\ mounted = "yes" /\ TargetNotAhead)
           => dataWithPredictions = Historical

\* SalesByCategoryChart with six aggregated months and the selects on the
\* last of them
TargetOnLastMonth ==
    /\ component = "sales"
    /\ mounted = "yes"
    /\ enablePrediction
    /\ Len(aggregatedData) >= 6
    /\ predictionYear = ToString(aggregatedData[Len(aggregatedData)].year)
    /\ predictionMonth = ToString(aggregatedData[Len(aggregatedData)].month)
    /\ dataWithPredictions = aggregatedData

\* the amount of a record is part of a total; the raw inputs give the record
\* at position k the amount 2^(k-1)
Contains(total, amount) == (total.n \div amount.n) % 2 = 1

\* C7: the record that is first and the record that is last after the sort
\* by (year, month) are part of no aggregated amount, under "Total" and
\* under every category, whatever their own categories
BoundaryRecordsTrimmed ==
    (component = "sales" /\ mounted = "yes" /\ salesData # <<>>)
        => \A k \in 1..Len(aggregatedData) :
               /\ ~Contains(aggregatedData[k].totalAmount, salesData[1].totalAmount)
               /\ ~Contains(aggregatedData[k].totalAmount,
                            salesData[Len(salesData)].totalAmount)

\* the first and the last record are of the selected category, the first
\* shares its month with the record after it, and a point is left
BoundaryRecordsOfTheCategory ==
    /\ component = "sales"
    /\ mounted = "yes"
    /\ Len(salesData) = 4
    /\ selectedCategory = "Red"
    /\ salesData[1].category = "Red"
    /\ salesData[4].category = "Red"
    /\ salesData[1].month = salesData[2].month
    /\ aggregatedData # <<>>

\* the records between the first and the last that pass the category filter
Survivors ==
    {i \in 2..(Len(salesData) - 1) :
        selectedCategory = "Total" \/ salesData[i].category = selectedCategory}

\* the sum of the amounts of the records at the positions of the set
RECURSIVE AmountOf(_)
AmountOf(positions) ==
    IF positions = {} THEN R(0)
    ELSE LET i == CHOOSE x \in positions : TRUE
         IN  Add(salesData[i].totalAmount, AmountOf(positions \ {i}))

\* C8: for every (year, month) of a surviving record that passes the filter
\* the aggregate holds exactly one point, its amount the sum of the amounts
\* of the surviving records of that month that pass the filter ("Total"
\* passes every record, a category the records of exactly that category);
\* a month without such a record has no point
AggregationSums ==
    (component = "sales" /\ mounted = "yes")
        => /\ \A i \in Survivors :
                \E k \in 1..Len(aggregatedData) :
                    /\ aggregatedData[k].year = salesData[i].year
                    /\ aggregatedData[k].month = salesData[i].month
                    /\ aggregatedData[k].totalAmount
                           = AmountOf({j \in Survivors :
                                          /\ salesData[j].year = salesData[i].year
                                          /\ salesData[j].month = salesData[i].month})
                    /\ \A l \in 1..Len(aggregatedData) :
                           (aggregatedData[l].year = salesData[i].year
                               /\ aggregatedData[l].month = salesData[i].month) => l = k
           /\ \A k \in 1..Len(aggregatedData) :
                \E i \in Survivors :
                    /\ aggregatedData[k].year = salesData[i].year
                    /\ aggregatedData[k].month = salesData[i].month

\* the five records under category Red: the two Red records of December
\* 2023 are summed, the White record of January is left out
TwoRecordsSummed ==
    /\ component = "sales"
    /\ mounted = "yes"
    /\ Len(salesData) = 5
    /\ selectedCategory = "Red"
    /\ salesData[4].category = "White"
    /\ aggregatedData = <<[year |-> 2023, month |-> 12, totalAmount |-> R(10),
                           category |-> "Red", isPredicted |-> FALSE]>>

\* C9: in the combined series of SalesByCategoryChart and of
\* GeneralSalePriceStats the (year, month) pairs are strictly increasing, so
\* unique, and no predicted point precedes a historical one, after every
\* sequence of selections
SeriesOrdered ==
    (component \in {"sales", "stats"} /\ mounted = "yes")
        => \A i \in 1..(Len(dataWithPredictions) - 1) :
               /\ 12 * dataWithPredictions[i].year + dataWithPredictions[i].month
                      < 12 * dataWithPredictions[i + 1].year
                            + dataWithPredictions[i + 1].month
               /\ dataWithPredictions[i].isPredicted
                      => dataWithPredictions[i + 1].isPredicted

(***************************************************************************)
(* Seasonal forecast of a history with a spike                             *)
(***************************************************************************)
\* the metric of the history is 100 in every month but December, where it
\* is 200, and the target is December of the following year
SpikeInDecember(ys) ==
    /\ called = "seasonalPrediction"
    /\ ys = [i \in 1..12 |-> R(Spike(12)[i])]
    /\ targetYear = historicalData[12].year + 1
    /\ targetMonth = 12

\* C11: on twelve points from January to December that are all 100 except
\* 200 in December, method seasonal with the next December as the target
\* predicts for that December a value greater than the value of November
\* and of every other predicted month.
SeasonalSpike ==
    /\ SpikeInDecember(Sales(historicalData)) =>
          /\ Len(predictions) = 12
          /\ predictions[12].month = 12
          /\ \A j \in 1..11 :
                WideFracLt(predictions[j].totalAmount, predictions[12].totalAmount)
    /\ SpikeInDecember(Prices(historicalData)) =>
          /\ Len(predictions) = 12
          /\ \A j \in 1..11 :
                WideFracLt(predictions[j].avgPrice, predictions[12].avgPrice)

\* both metrics have the spike, and December is predicted above November
SpikePredicted ==
    /\ SpikeInDecember(Sales(historicalData))
    /\ SpikeInDecember(Prices(historicalData))
    /\ predictions[11].month = 11
    /\ predictions[12].totalAmount.n = WideOf(200) \/ Len(predictions[12].totalAmount.n) > 3
    /\ WideFracLt(predictions[11].totalAmount, predictions[12].totalAmount)

(***************************************************************************)
(* The analytics over the window                                           *)
(***************************************************************************)
\* the analytics a component shows for a displayed sequence
Analytics(displayed) ==
    IF component = "sales"
    THEN <<getSeasonMessage(seasonalTotals(displayed)), getMaxAndMinSale(displayed)>>
    ELSE <<correlationInsight(displayed)>>

\* the points of the combined series at the 0-based indices lo..hi
PointsBetween(lo, hi) ==
    LET idx == {i \in 1..Len(dataWithPredictions) : lo + 1 <= i /\ i <= hi + 1}
    IN  [k \in 1..Cardinality(idx) |-> dataWithPredictions[lo + k]]

\* C12: the analytics of a rendered component are those of the points of the
\* combined series at the indices rangeValues[0]..rangeValues[1], and with
\* the window [0, length - 1] they are those of the whole series.
IdempotentWindowing ==
    (mounted = "yes" /\ component \in {"sales", "part_000"}) =>
        /\ Analytics(displayedData) = Analytics(PointsBetween(rangeValues[1], rangeValues[2]))
        /\ rangeValues = <<0, Len(dataWithPredictions) - 1>> =>
              Analytics(displayedData) = Analytics(dataWithPredictions)

\* a window that leaves out a point at each end of a series with predictions
WindowInside ==
    /\ mounted = "yes"
    /\ component \in {"sales", "part_000"}
    /\ rangeValues[1] = 1
    /\ rangeValues[2] = Len(dataWithPredictions) - 2
    /\ \E i \in 1..Len(displayedData) : displayedData[i].isPredicted
    /\ Analytics(displayedData) # Analytics(dataWithPredictions)

(***************************************************************************)
(* Tags of the points of SalesByCategoryChart                              *)
(***************************************************************************)
\* C13: in the combined series of SalesByCategoryChart the historical points
\* have isPredicted = false and the appended points have isPredicted = true;
\* the appended points carry the selected category when one is selected and
\* no category under "Total".
PredictedPointsTagged ==
    (component = "sales" /\ mounted = "yes") =>
        \A i \in 1..Len(dataWithPredictions) :
            LET point == dataWithPredictions[i]
            IN  IF i <= Len(aggregatedData)
                THEN point = aggregatedData[i] /\ ~point.isPredicted
                ELSE /\ point.isPredicted
                     /\ selectedCategory = "Total" => "category" \notin DOMAIN point
                     /\ selectedCategory # "Total" =>
                           /\ "category" \in DOMAIN point
                           /\ point.category = selectedCategory

\* predictions appended to the series of a selected category
CategoryForecast ==
    /\ component = "sales"
    /\ mounted = "yes"
    /\ selectedCategory = "Red"
    /\ Len(dataWithPredictions) > Len(aggregatedData)
    /\ Len(aggregatedData) >= 6
    /\ dataWithPredictions[Len(dataWithPredictions)].category = "Red"

(***************************************************************************)
(* The change fields of the combined sequence                              *)
(***************************************************************************)
\* the historical series followed by the returned predictions
Combined == historicalData \o predictions

\* the change fields of the point at index i are the differences of its
\* values and those of the point before it, and their percentages
ChangesOfValues(i) ==
    LET point == Combined[i]
        prev == Combined[i - 1]
        priceChange == Sub(point.avgPrice, prev.avgPrice)
        salesChange == Sub(point.totalAmount, prev.totalAmount)
    IN  /\ point.priceChange = priceChange
        /\ point.salesChange = salesChange
        /\ point.priceChangePercent = Mul(Div(priceChange, prev.avgPrice), R(100))
        /\ point.salesChangePercent = Mul(Div(salesChange, prev.totalAmount), R(100))

\* C14: in the historical series followed by the predictions, every point
\* after the first has priceChange and salesChange equal to its avgPrice and
\* totalAmount minus those of the point before it, and the percentages are
\* those differences over the values of the point before it times 100; the
\* first historical point has 0 in the four change fields.
ChangeFieldsFollowValues ==
    (called = "generatePredictions" /\ historicalData # <<>>) =>
        /\ Combined[1].priceChange = R(0) /\ Combined[1].salesChange = R(0)
        /\ Combined[1].priceChangePercent = R(0) /\ Combined[1].salesChangePercent = R(0)
        /\ \A i \in 2..Len(Combined) : ChangesOfValues(i)

(***************************************************************************)
(* The seasonal analysis of SalesByCategoryChart                           *)
(***************************************************************************)
\* the months of the four seasons
SeasonMonths ==
    [Winter |-> {12, 1, 2}, Spring |-> {3, 4, 5}, Summer |-> {6, 7, 8}, Fall |-> {9, 10, 11}]

\* the sum of the amounts of the displayed points at the indices of a set
RECURSIVE DisplayedAmount(_)
DisplayedAmount(indices) ==
    IF indices = {} THEN R(0)
    ELSE LET i == CHOOSE k \in indices : TRUE
         IN  Add(displayedData[i].totalAmount, DisplayedAmount(indices \ {i}))

\* the total of a season: the historical points of 2023 in the window whose
\* month belongs to the season
SeasonTotal(season) ==
    DisplayedAmount({i \in 1..Len(displayedData) :
                        /\ displayedData[i].year = 2023
                        /\ ~displayedData[i].isPredicted
                        /\ displayedData[i].month \in SeasonMonths[season]})

\* C15: the seasonal totals of SalesByCategoryChart are the sums of the
\* amounts of the historical points of 2023 in the window by season
\* (Winter 12, 1, 2; Spring 3, 4, 5; Summer 6, 7, 8; Fall 9, 10, 11); the
\* message is the "no data" one exactly when the four totals are 0, and
\* otherwise names a peak season whose total no season exceeds and a low
\* season whose total no season falls below.
SeasonalAnalysis ==
    (component = "sales" /\ mounted = "yes") =>
        LET totals == seasonalTotals(displayedData)
            message == getSeasonMessage(totals)
        IN  /\ \A season \in DOMAIN SeasonMonths : totals[season] = SeasonTotal(season)
            /\ IF \A season \in DOMAIN SeasonMonths : SeasonTotal(season) = R(0)
               THEN message = [message |-> "No 2023 data available for seasonal analysis"]
               ELSE /\ DOMAIN message = {"peak", "low"}
                    /\ \A season \in DOMAIN SeasonMonths :
                          /\ Ge(SeasonTotal(message.peak), SeasonTotal(season))
                          /\ Ge(SeasonTotal(season), SeasonTotal(message.low))

\* the window holds a predicted December 2023 and a historical point of
\* another year, neither of which is in the totals, and two seasons differ
SeasonsOfTheWindow ==
    /\ component = "sales"
    /\ mounted = "yes"
    /\ \E i \in 1..Len(displayedData) :
          /\ displayedData[i].isPredicted
          /\ displayedData[i].year = 2023
          /\ displayedData[i].month = 12
          /\ displayedData[i].totalAmount # R(0)
    /\ seasonalTotals(displayedData).Winter = R(0)
    /\ getSeasonMessage(seasonalTotals(displayedData)) = [peak |-> "Fall", low |-> "Spring"]
    /\ rangeValues[1] = 1

(***************************************************************************)
(* The largest and the smallest sale of SalesByCategoryChart               *)
(***************************************************************************)
\* the indices of the displayed points that are historical and neither June
\* 2022 nor June 2024
Qualifying ==
    {i \in 1..Len(displayedData) :
        /\ ~displayedData[i].isPredicted
        /\ <<displayedData[i].year, displayedData[i].month>> \notin {<<2022, 6>>, <<2024, 6>>}}

RealPoints == {i \in 1..Len(displayedData) : ~displayedData[i].isPredicted}

\* those of them, but the first, whose price changed by more than 0.5 percent
QualifyingChanges ==
    {i \in RealPoints :
        /\ \E j \in RealPoints : j < i
        /\ Gt(Abs(displayedData[i].priceChangePercent), Norm(1, 2))}

\* those of them whose price and sales changed in opposite directions
InverseChanges ==
    {i \in QualifyingChanges :
        \/ Lt(displayedData[i].priceChange, R(0)) /\ Gt(displayedData[i].salesChange, R(0))
        \/ Gt(displayedData[i].priceChange, R(0)) /\ Lt(displayedData[i].salesChange, R(0))}

\* inverse changes among the qualifying ones, in percent
InverseShare == Mul(Div(R(Cardinality(InverseChanges)), R(Cardinality(QualifyingChanges))), R(100))

\* C17 as stated: the insight is null exactly when fewer than two historical
\* points are in the window or none qualifies, and otherwise the reported
\* percentage is the share of the inverse changes among the qualifying ones
\* times 100.
CorrelationShare ==
    (component = "part_000" /\ mounted = "yes") =>
        IF Cardinality(RealPoints) < 2 \/ QualifyingChanges = {}
        THEN correlationInsight(displayedData) = [null |-> TRUE]
        ELSE /\ DOMAIN correlationInsight(displayedData) = {"inversePercent"}
             /\ R(correlationInsight(displayedData).inversePercent) = InverseShare

\* C17 amended: the insight is null exactly when fewer than two historical
\* points are in the window or none qualifies, and otherwise the reported
\* percentage is the share of the inverse changes among the qualifying ones
\* times 100, rounded to the nearest whole number.
CorrelationShareRounded ==
    (component = "part_000" /\ mounted = "yes") =>
        IF Cardinality(RealPoints) < 2 \/ QualifyingChanges = {}
        THEN correlationInsight(displayedData) = [null |-> TRUE]
        ELSE /\ DOMAIN correlationInsight(displayedData) = {"inversePercent"}
             /\ R(correlationInsight(displayedData).inversePercent) = Round(InverseShare)

\* two of three qualifying changes are inverse, and the first historical
\* point of the window, whose price changed as much, is not among them
TwoOfThreeInverse ==
    /\ component = "part_000"
    /\ mounted = "yes"
    /\ rangeValues[1] = 1
    /\ Cardinality(QualifyingChanges) = 3
    /\ Cardinality(InverseChanges) = 2
    /\ Gt(Abs(displayedData[1].priceChangePercent), Norm(1, 2))
    /\ correlationInsight(displayedData) = [inversePercent |-> 67]

(***************************************************************************)
(* The inputs of the components                                            *)
(***************************************************************************)
\* C18: no step changes the inputs: the raw records the caller passed as
\* salesData and chartData keep their elements and their order, and so does
\* the historical series passed to a forecast.
InputsUntouched ==
    [][salesData' = salesData /\ chartData' = chartData /\ historicalData' = historicalData]_vars

(***************************************************************************)
(* The boundary months of the raw records                                  *)
(***************************************************************************)
\* the record is of a month no record precedes, or of one no record follows
InBoundaryMonth(point) ==
    \/ \A i \in 1..Len(salesData) : InOrder(point, salesData[i])
    \/ \A i \in 1..Len(salesData) : InOrder(salesData[i], point)

\* C19: the aggregated series of a rendered SalesByCategoryChart has no
\* point for the earliest month of the raw records and none for the latest,
\* however many records those months have.
BoundaryMonthsExcluded ==
    (component = "sales" /\ mounted = "yes") =>
        \A i \in 1..Len(aggregatedData) :
            ~InBoundaryMonth([year |-> aggregatedData[i].year, month |-> aggregatedData[i].month])

(***************************************************************************)
(* Inputs of one and two records                                           *)
(***************************************************************************)
\* the raw records the rendered component was given
RawRecords == IF component = "sales" THEN salesData ELSE chartData

\* C20: a component rendered with at most two raw records has an empty
\* historical series, the first and the last of the sorted records being
\* dropped whatever their number.
ShortInputsTrimmedAway ==
    (mounted = "yes" /\ Len(RawRecords) <= 2) => HistoricalSeries(selectedCategory) = <<>>

(***************************************************************************)
(* The shortest history an entry point predicts from                       *)
(***************************************************************************)
\* C21: the dispatcher and the seasonal forecast of the category series
\* return at least one point for every history of at least 3 points and a
\* target (month 1..12) after its last point.
MinimumHistoryOfThree ==
    (called \in {"generatePredictions", "generateSmartSalesPredictions"}
        /\ Len(historicalData) >= 3 /\ FutureTarget)
        => predictions # <<>>

(***************************************************************************)
(* The baseline of the seasonal method                                     *)
(***************************************************************************)
\* the positions of the history that lie in calendar month m
ObservedIn(m) == {i \in 1..Len(historicalData) : historicalData[i].month = m}

\* the mean of the values at the positions idx, which are not none
RECURSIVE TotalAt(_, _)
TotalAt(ys, idx) ==
    IF idx = {} THEN R(0)
    ELSE LET i == CHOOSE k \in idx : TRUE
         IN  Add(ys[i], TotalAt(ys, idx \ {i}))

MeanAt(ys, idx) == Div(TotalAt(ys, idx), R(Cardinality(idx)))

\* the baseline the seasonal method is to take for calendar month m: the
\* mean of the month's observed values, the overall mean if it has none
Baseline(ys, m) ==
    IF ObservedIn(m) # {} THEN MeanAt(ys, ObservedIn(m)) ELSE MeanAt(ys, DOMAIN ys)

\* baseline * (1 + growth / 100) ^ monthsAhead, floored at 0
OnBaseline(ys, m, monthsAhead) ==
    LET growth == SeasonalFit(historicalData, ys).monthlyGrowth
    IN  Max0(Mul(Baseline(ys, m), Pow(Add(R(1), Div(growth, R(100))), monthsAhead)))

\* C22: every point the seasonal method predicts is its calendar month's
\* historical mean times the trend multiplier when the month occurs in the
\* history, a mean of 0 included, and the overall mean times the multiplier
\* only when the month does not occur in it.
SeasonalBaselineChoice ==
    (called # "none" /\ method = "seasonal") =>
        \A j \in 1..Len(predictions) :
            /\ predictions[j].totalAmount
                   = OnBaseline(Sales(historicalData), predictions[j].month, j)
            /\ "avgPrice" \in DOMAIN predictions[j] =>
                   predictions[j].avgPrice
                       = OnBaseline(Prices(historicalData), predictions[j].month, j)

(***************************************************************************)
(* The denominators of the least-squares fits                              *)
(***************************************************************************)
\* none of the denominators the methods compute on a history of n points is
\* 0: the trend's over the history and over the window, and the parabola's
DenominatorsNotZero(n) ==
    /\ TrendDenominator(n) # 0
    /\ TrendDenominator(WindowSize(n)) # 0
    /\ PolynomialDenominator(n) # 0

\* C23: in every call the dispatcher lets through (3 points or more) the
\* least-squares denominators of linear, seasonal, the two moving averages
\* and polynomial are not 0, and so are they for every length from 3 to
\* MaxLength.
TrendSolverNeverDegenerate ==
    /\ (called = "generatePredictions" /\ ~TooShort(historicalData))
           => DenominatorsNotZero(Len(historicalData))
    /\ \A n \in 3..MaxLength : DenominatorsNotZero(n)

\* polynomial predicted finite values from a history of twelve points
PolynomialOnTwelvePoints ==
    /\ called = "generatePredictions"
    /\ method = "polynomial"
    /\ Len(historicalData) = 12
    /\ predictions # <<>>
    /\ \A j \in 1..Len(predictions) :
          IsFinite(predictions[j].avgPrice) /\ IsFinite(predictions[j].totalAmount)

(***************************************************************************)
(* The window of the moving averages                                       *)
(***************************************************************************)
\* the history of the call with the price and the amount of every point
\* older than its last 6 replaced
OlderPointsReplaced(price, amount) ==
    [i \in 1..Len(historicalData) |->
        IF i <= Len(historicalData) - 6
        THEN [historicalData[i] EXCEPT !.avgPrice = R(price), !.totalAmount = R(amount)]
        ELSE historicalData[i]]

\* the values older points are replaced by
OlderValues == {0, 7}

\* the last 6 values, oldest first
LastSix(ys) == [i \in 1..6 |-> ys[Len(ys) - 6 + i]]

\* (1 * w[1] + 2 * w[2] + ... + 6 * w[6]) / (1 + 2 + ... + 6)
WeightedMeanOfSix(w) ==
    Div(Add(Add(Add(w[1], Mul(R(2), w[2])), Add(Mul(R(3), w[3]), Mul(R(4), w[4]))),
            Add(Mul(R(5), w[5]), Mul(R(6), w[6]))),
        R(21))

\* the value the method is to predict monthsAhead months ahead: the mean of
\* the last 6 values, weighted 1..6 in weighted-moving-average, plus the
\* slope over them times monthsAhead, floored at 0
WindowValue(ys, monthsAhead) ==
    LET w == LastSix(ys)
        mean == IF method = "weighted-moving-average" THEN WeightedMeanOfSix(w)
                ELSE Div(SumSeq(w), R(6))
    IN  Max0(Add(mean, Mul(Slope(w), R(monthsAhead))))

\* C24: moving-average and weighted-moving-average on a history of more
\* than 6 points predict the same points whatever the points older than the
\* last 6 are, and their values are the mean of the last 6 values, in
\* weighted-moving-average with the weights 1..6 from the oldest to the
\* most recent, plus the slope over the last 6 times the months ahead.
WindowIndependence ==
    (called = "generatePredictions"
        /\ method \in {"moving-average", "weighted-moving-average"}
        /\ Len(historicalData) > 6)
        => /\ \A price \in OlderValues, amount \in OlderValues :
                  generatePredictions(OlderPointsReplaced(price, amount), targetYear,
                                      targetMonth, method) = predictions
           /\ \A j \in 1..Len(predictions) :
                  /\ predictions[j].avgPrice = WindowValue(Prices(historicalData), j)
                  /\ predictions[j].totalAmount = WindowValue(Sales(historicalData), j)

\* weighted-moving-average predicted an amount above 0 from eight points of
\* which the two oldest differ from each value they are replaced by
WeightedWindowOfEight ==
    /\ called = "generatePredictions"
    /\ method = "weighted-moving-average"
    /\ Len(historicalData) = 8
    /\ predictions # <<>>
    /\ Gt(predictions[1].totalAmount, R(0))
    /\ historicalData[1].totalAmount # historicalData[8].totalAmount
    /\ \A price \in OlderValues, amount \in OlderValues :
          OlderPointsReplaced(price, amount) # historicalData

(***************************************************************************)
(* The seasonal ratios of holt-winters                                     *)
(***************************************************************************)
\* C25: in a holt-winters forecast from 12 points or more, the seasonal
\* ratio applied to a predicted point of calendar month M is the one that
\* was initialised and updated from the historical points of month M: the
\* index of the fitting loop at each historical point of month M is the
\* index the generation loop takes for M.
SeasonalAlignment ==
    (called = "generatePredictions" /\ method = "holt-winters"
        /\ Len(historicalData) >= seasonLength)
        => \A j \in 1..Len(predictions) :
               \A i \in 1..Len(historicalData) :
                   historicalData[i].month = predictions[j].month
                       => FitSeasonalIdx(i - 1) = PredictSeasonalIdx(predictions[j].month)

(***************************************************************************)
(* The autoregression of arima                                             *)
(***************************************************************************)
\* x is not below the smallest and not above the largest value of the set
Within(x, values) == (\E v \in values : Ge(x, v)) /\ (\E v \in values : Ge(v, x))

\* on a metric whose historical values are all above 0: the normalised
\* coefficients are above 0 and sum to 1, each predicted value lies within
\* the three values before it and within the last three historical values,
\* and a constant history is predicted to stay at its value
ConvexOn(field) ==
    LET ys == [i \in 1..Len(historicalData) |-> historicalData[i][field]]
        coef == NormalizedCoef(ys)
        values == ys \o [j \in 1..Len(predictions) |-> predictions[j][field]]
        RollingWindow(j) == {values[Len(ys) + j - k] : k \in 1..p}
    IN  (\A i \in 1..Len(ys) : Gt(ys[i], R(0))) =>
            /\ \A j \in 1..p : Gt(coef[j], R(0))
            /\ SumSeq(coef) = R(1)
            /\ \A j \in 1..Len(predictions) :
                  /\ Within(predictions[j][field], RollingWindow(j))
                  /\ Within(predictions[j][field], RollingWindow(1))
            /\ IsConstant(ys) =>
                  \A j \in 1..Len(predictions) : predictions[j][field] = ys[1]

TargetOnHorizon(lastData, months) ==
    LET target == TargetAfter(lastData, months)
    IN  /\ target.month \in 1..12
        /\ 12 * target.year + target.month = 12 * lastData.year + lastData.month + months
        /\ Len(MonthWalk(lastData.year, lastData.month, target.year, target.month)) = months

\* C27: GeneralSalePriceStats with prediction enabled, a period of k months
\* (1..24) and a historical series of at least 3 points computes a target
\* exactly k calendar months after the last historical point, in a month
\* 1..12, and its combined series is the historical series followed by
\* exactly k predicted points, whichever method is selected and whichever
\* month the last point lies in.
HorizonLength ==
    /\ (component = "stats" /\ mounted = "yes" /\ enablePrediction
            /\ predictionMonths \in 1..MaxPredictionMonths /\ Len(allFormattedData) >= 3)
           => /\ TargetOnHorizon(allFormattedData[Len(allFormattedData)], predictionMonths)
              /\ Len(dataWithPredictions) = Len(allFormattedData) + predictionMonths
              /\ SubSeq(dataWithPredictions, 1, Len(allFormattedData)) = allFormattedData
              /\ \A i \in 1..Len(dataWithPredictions) :
                     dataWithPredictions[i].isPredicted = (i > Len(allFormattedData))
    /\ \A month \in 1..12, months \in 1..MaxPredictionMonths :
           TargetOnHorizon([year |-> 2023, month |-> month], months)

\* holt-winters predicted three months, into the next year, after the period
\* and the method were changed
HorizonOverYearEnd ==
    /\ component = "stats"
    /\ mounted = "yes"
    /\ enablePrediction
    /\ predictionMethod = "holt-winters"
    /\ predictionMonths = 3
    /\ Len(allFormattedData) >= 3
    /\ dataWithPredictions[Len(dataWithPredictions)].year
           = allFormattedData[Len(allFormattedData)].year + 1

(***************************************************************************)
(* The window and the length of the combined series                        *)
(***************************************************************************)
\* C28: in a rendered component, after every event and the effect that
\* follows it, the window satisfies 0 <= lo <= hi <= max(0, length - 1) for
\* the length of the current combined series, and a step that changes that
\* length leaves the window at [0, length - 1].
WindowStaysInside ==
    /\ [](mounted = "yes" =>
              /\ 0 <= rangeValues[1]
              /\ rangeValues[1] <= rangeValues[2]
              /\ rangeValues[2] <= Max(0, Len(dataWithPredictions) - 1))
    /\ [][(mounted = "yes" /\ Len(dataWithPredictions') # Len(dataWithPredictions))
              => rangeValues' = <<0, Len(dataWithPredictions') - 1>>]_vars

(***************************************************************************)
(* Inverse and direct changes                                              *)
(***************************************************************************)
\* C29: of the qualifying points of the window every one is counted as
\* inverse or as direct, so that inverseCases + directCases = totalCases.
CorrelationPartition ==
    (component \in {"stats", "part_000"} /\ mounted = "yes") =>
        LET counted == correlationCases(displayedData)
        IN  counted.inverseCases + counted.directCases = counted.totalCases

=============================================================================
